---- MODULE Spec2Model ----
(***************************************************************************)
(* Chatter: accounts, authentication, likes, comments and user projects.   *)
(* The relational tables are the state; every HTTP handler is one action   *)
(* (or, where two requests can interleave, one action per SQL round trip). *)
(* Ids start at 1, so 0 stands for None / NULL / "no user".                *)
(***************************************************************************)
EXTENDS Integers, Naturals, Sequences, FiniteSets, TLC

VARIABLES
    users,          \* table "user": id -> row
    nextUserId,     \* next value of the user id sequence
    account_logs,   \* table "accountlog": sequence of rows, oldest first
    projects,       \* table "project": id -> row
    nextProjectId,  \* next value of the project id sequence
    rows,           \* the project child tables (step, bom, ...): id -> row
    nextRowId,      \* next id of a child row
    components,     \* table "component": set of component ids
    likes,          \* table "like": id -> row
    nextLikeId,     \* next value of the like id sequence
    comments,       \* table "comment": id -> row
    nextCommentId,  \* next value of the comment id sequence
    versions,       \* table "commentversion": sequence of rows, oldest first
    now,            \* datetime.utcnow(), in ticks
    issued,         \* the access tokens create_access_token has signed
    inflight,       \* requests between two of their SQL round trips
    page_views,     \* table "pageview": sequence of rows, oldest first
    comment_likes,  \* table "comment_likes": id -> row
    nextCommentLikeId, \* next value of the comment like id sequence
    resp            \* the response of the last request

userVars == <<users, nextUserId, account_logs>>
projVars == <<projects, nextProjectId, rows, nextRowId, components>>
socialVars == <<likes, nextLikeId, comments, nextCommentId, versions>>
authVars == <<now, issued>>
commentLikeVars == <<comment_likes, nextCommentLikeId>>
nonProjVars == <<userVars, socialVars, authVars, inflight, page_views, commentLikeVars>>
vars == <<users, nextUserId, account_logs, projects, nextProjectId, rows,
          nextRowId, components, likes, nextLikeId, comments, nextCommentId,
          versions, now, issued, inflight, page_views, commentLikeVars, resp>>

(***************************************************************************)
(* Bounds of the model.                                                    *)
(***************************************************************************)
MaxUsers == 2        \* user ids ever allocated
MaxTime == 3         \* the clock stops here
MaxTokens == 2       \* access tokens ever issued
MaxLogs == 2         \* rows of the account log
MaxProjects == 1     \* project ids ever allocated
MaxRows == 2         \* child-row ids ever allocated
MaxEditRows == 1     \* child rows created under the editor's specification
MaxCount == 1        \* cap of view_count / download_count
MaxPage == 2         \* page and per_page values tried by list_projects
MaxStep == 2         \* step numbers tried by create_project_step
MaxClock == 51       \* the clock of the reset codes stops here
MaxViews == 2        \* rows of the page view table
MaxComments == 2     \* comment ids ever allocated
MaxFlags == 1        \* reports of one comment
MaxVersions == 2     \* rows of the comment version table
MaxLikes == 2        \* like ids ever allocated
MaxInflight == 2     \* requests served at the same time
MaxCommentLikes == 3 \* comment like ids ever allocated
MaxThread == 3       \* comment ids ever allocated by concurrent POST /comment

MAX_PROJECT_FILE_SIZE == 25 * 1024 * 1024
MAX_PROJECT_IMAGE_SIZE == 10 * 1024 * 1024

NONE == 0
TokenLife == 1       \* ACCESS_TOKEN_EXPIRE_MINUTES: one tick of the clock
NoSet == {}

(***************************************************************************)
(* resp is what the last request answered: the endpoint (the endpoints of  *)
(* the project child tables are recorded as "write_row" / "read_rows"),    *)
(* the HTTP status, the resolved caller, the row addressed, the ids of the  *)
(* rows returned and, where a claim needs it, the body of the request.     *)
(***************************************************************************)
Answer(op, status, caller, target, ids, arg) ==
    resp' = [op |-> op, status |-> status, caller |-> caller,
             target |-> target, ids |-> ids, arg |-> arg]

Respond(op, status, caller, target, ids) ==
    Answer(op, status, caller, target, ids, NONE)

(***************************************************************************)
(* Users                                                                   *)
(***************************************************************************)
NoResponse ==
    [op |-> "init", status |-> 0, caller |-> NONE, target |-> NONE,
     ids |-> NoSet, arg |-> NONE]

hash_password(password) == <<"hash", password>>

(* password_reset_code of a user who holds no code (None) *)
NoCode == ""

(* a row of the user table; created_at is the initial instant for the      *)
(* users of the initial state and utcnow() for those inserted later        *)
User(username, email, password, type) ==
    [username |-> username, firstname |-> "f0", lastname |-> "l0",
     email |-> email, status |-> "active",
     hashed_password |-> hash_password(password), type |-> type,
     force_password_reset |-> FALSE, password_reset_code |-> NoCode,
     code_expires_at |-> NONE, last_login |-> NONE, created_at |-> 1]

(* current_user: Optional[User] as a read handler receives it: None (0) or  *)
(* a row of the user table                                                  *)
OptionalUser(u) == u = NONE \/ u \in DOMAIN users

(* who a request may claim to be: nobody, or the holder of a token issued   *)
(* to a user id (the user may have been deleted since)                      *)
Requesters == (1..MaxUsers) \cup {NONE}

(* get_current_user as the handlers below see it: 401 without a token, 404  *)
(* when the token's user is gone, 0 when the request is authenticated       *)
AuthGate(u) ==
    IF u = NONE THEN 401
    ELSE IF u \notin DOMAIN users THEN 404
    ELSE 0

(***************************************************************************)
(* Projects                                                                *)
(***************************************************************************)
Tags == {"a"}
TagInputs == {"a", "A"}
Lower(s) == IF s = "A" THEN "a" ELSE s
Titles == {"t1", "t2"}

Project(title, author, tags) ==
    [title |-> title, author_id |-> author, status |-> "draft",
     tags |-> tags, view_count |-> 0, download_count |-> 0,
     like_count |-> 0, primary_image_id |-> NONE]

RowsOf(pid, kind) ==
    {r \in DOMAIN rows : rows[r].project_id = pid /\ rows[r].kind = kind}

Drop(f, S) == [x \in DOMAIN f \ S |-> f[x]]

Put(f, k, v) == [x \in DOMAIN f \cup {k} |-> IF x = k THEN v ELSE f[x]]

AuthorGate_NoAuthorTest(u, pid) ==
    IF AuthGate(u) # 0 THEN AuthGate(u)
    ELSE IF pid \notin DOMAIN projects THEN 404
    ELSE 0

(* The check every mutating project handler starts with: the dependency     *)
(* get_current_user (401), the project lookup (404), the author test (403). *)
(* 0 means the request passed.                                              *)
AuthorGate(u, pid) ==
    IF AuthGate(u) # 0 THEN AuthGate(u)
    ELSE IF pid \notin DOMAIN projects THEN 404
    ELSE IF projects[pid].author_id # u THEN 403
    ELSE 0

ReadGate_NoDraftTest(u, pid) ==
    IF pid \notin DOMAIN projects THEN 404 ELSE 0

(* The check every read handler of a project starts with. *)
ReadGate(u, pid) ==
    IF pid \notin DOMAIN projects THEN 404
    ELSE IF projects[pid].status = "draft"
            /\ (u = NONE \/ u # projects[pid].author_id)
         THEN 403
    ELSE 0

Reject(op, status, u, pid) ==
    /\ Respond(op, status, u, pid, NoSet)
    /\ UNCHANGED <<nonProjVars, projVars>>

create_project(u, title, tags) ==
    IF AuthGate(u) # 0
    THEN Reject("create_project", AuthGate(u), u, NONE)
    ELSE /\ nextProjectId <= MaxProjects
         /\ projects' = Put(projects, nextProjectId,
                            Project(title, u, {Lower(t) : t \in tags}))
         /\ nextProjectId' = nextProjectId + 1
         /\ Respond("create_project", 201, u, nextProjectId, NoSet)
         /\ UNCHANGED <<nonProjVars, rows, nextRowId, components>>

get_project(u, pid) ==
    /\ OptionalUser(u)
    /\ IF ReadGate(u, pid) # 0
       THEN Reject("get_project", ReadGate(u, pid), u, pid)
       ELSE /\ IF projects[pid].status = "published"
               THEN /\ projects[pid].view_count < MaxCount
                    /\ projects' = [projects EXCEPT ![pid].view_count = @ + 1]
               ELSE UNCHANGED projects
            /\ Respond("get_project", 200, u, pid, NoSet)
            /\ UNCHANGED <<nonProjVars, nextProjectId, rows, nextRowId, components>>

update_project(u, pid, title, tagsGiven, tags) ==
    IF AuthorGate(u, pid) # 0
    THEN Reject("update_project", AuthorGate(u, pid), u, pid)
    ELSE /\ projects' = [projects EXCEPT
                ![pid].title = IF title # "none" THEN title ELSE @,
                ![pid].tags = IF tagsGiven THEN {Lower(t) : t \in tags} ELSE @]
         /\ Respond("update_project", 200, u, pid, NoSet)
         /\ UNCHANGED <<nonProjVars, nextProjectId, rows, nextRowId, components>>

delete_project(u, pid) ==
    IF AuthorGate(u, pid) # 0
    THEN Reject("delete_project", AuthorGate(u, pid), u, pid)
    ELSE /\ projects' = Drop(projects, {pid})
         /\ rows' = Drop(rows, {r \in DOMAIN rows : rows[r].project_id = pid})
         /\ Respond("delete_project", 204, u, pid, NoSet)
         /\ UNCHANGED <<nonProjVars, nextProjectId, nextRowId, components>>

publish_project_NoStatusTest(u, pid) ==
    IF AuthorGate(u, pid) # 0
    THEN Reject("publish_project", AuthorGate(u, pid), u, pid)
    ELSE /\ projects' = [projects EXCEPT ![pid].status = "published"]
         /\ Respond("publish_project", 200, u, pid, NoSet)
         /\ UNCHANGED <<nonProjVars, nextProjectId, rows, nextRowId, components>>

publish_project(u, pid) ==
    IF AuthorGate(u, pid) # 0
    THEN Reject("publish_project", AuthorGate(u, pid), u, pid)
    ELSE IF projects[pid].status = "published"
    THEN Reject("publish_project", 400, u, pid)
    ELSE /\ projects' = [projects EXCEPT ![pid].status = "published"]
         /\ Respond("publish_project", 200, u, pid, NoSet)
         /\ UNCHANGED <<nonProjVars, nextProjectId, rows, nextRowId, components>>

unpublish_project(u, pid) ==
    IF AuthorGate(u, pid) # 0
    THEN Reject("unpublish_project", AuthorGate(u, pid), u, pid)
    ELSE IF projects[pid].status = "draft"
    THEN Reject("unpublish_project", 400, u, pid)
    ELSE /\ projects' = [projects EXCEPT ![pid].status = "draft"]
         /\ Respond("unpublish_project", 200, u, pid, NoSet)
         /\ UNCHANGED <<nonProjVars, nextProjectId, rows, nextRowId, components>>

(***************************************************************************)
(* list_projects                                                           *)
(***************************************************************************)
StatusFilters == {"none", "draft", "published", "all"}
Sorts == {"recent", "popular", "views", "downloads"}

(* the WHERE clause built by list_projects *)
Listed(u, status_filter, tag, author_id) ==
    {p \in DOMAIN projects :
        /\ IF status_filter # "none"
           THEN IF status_filter = "draft"
                THEN projects[p].status = "draft" /\ projects[p].author_id = u
                ELSE IF status_filter = "published"
                THEN projects[p].status = "published"
                ELSE TRUE
           ELSE IF u # NONE
                THEN \/ projects[p].status = "published"
                     \/ (projects[p].status = "draft" /\ projects[p].author_id = u)
                ELSE projects[p].status = "published"
        /\ (tag # "none" => Lower(tag) \in projects[p].tags)
        /\ (author_id # NONE => projects[p].author_id = author_id)}

SortKey(sort, p) ==
    IF sort = "popular" THEN projects[p].like_count
    ELSE IF sort = "views" THEN projects[p].view_count
    ELSE IF sort = "downloads" THEN projects[p].download_count
    ELSE p

(* the orders ORDER BY ... DESC may return S in (ties in any order) *)
Orderings(S, sort) ==
    {s \in [1..Cardinality(S) -> S] :
        /\ \A i, j \in DOMAIN s : i # j => s[i] # s[j]
        /\ \A i, j \in DOMAIN s : i < j => SortKey(sort, s[i]) >= SortKey(sort, s[j])}

(* OFFSET (page - 1) * per_page LIMIT per_page *)
PageOf(s, page, per_page) ==
    {s[i] : i \in {k \in DOMAIN s : k > (page - 1) * per_page
                                    /\ k <= page * per_page}}

list_projects(u, status_filter, tag, author_id, sort, page, per_page) ==
    /\ OptionalUser(u)
    /\ IF status_filter = "draft" /\ u = NONE
       THEN Reject("list_projects", 401, u, NONE)
       ELSE /\ \E s \in Orderings(Listed(u, status_filter, tag, author_id), sort) :
                 Respond("list_projects", 200, u, NONE, PageOf(s, page, per_page))
            /\ UNCHANGED <<nonProjVars, projVars>>

(***************************************************************************)
(* Child rows of a project.  A row is [kind, project_id, val, n]: val is   *)
(* the editable text of the row, n its step_number (step), component_id    *)
(* (component) or file_size (file).                                        *)
(***************************************************************************)
Vals == {"x", "y"}

Row(kind, pid, val, n) == [kind |-> kind, project_id |-> pid, val |-> val, n |-> n]

InsertRow(op, u, pid, row) ==
    /\ nextRowId <= MaxRows
    /\ rows' = Put(rows, nextRowId, row)
    /\ nextRowId' = nextRowId + 1
    /\ Respond(op, 201, u, pid, NoSet)
    /\ UNCHANGED <<nonProjVars, projects, nextProjectId, components>>

(* session.get(Table, id) followed by the project_id test *)
FindRow(kind, pid, rid) ==
    rid \in DOMAIN rows /\ rows[rid].kind = kind /\ rows[rid].project_id = pid

UpdateRow(op, u, pid, rid, val) ==
    /\ rows' = [rows EXCEPT ![rid].val = IF val # "none" THEN val ELSE @]
    /\ Respond(op, 200, u, pid, NoSet)
    /\ UNCHANGED <<nonProjVars, projects, nextProjectId, nextRowId, components>>

DeleteRow(op, u, pid, rid) ==
    /\ rows' = Drop(rows, {rid})
    /\ Respond(op, 204, u, pid, NoSet)
    /\ UNCHANGED <<nonProjVars, projects, nextProjectId, nextRowId, components>>

ListRows(op, u, pid, kind) ==
    /\ OptionalUser(u)
    /\ IF ReadGate(u, pid) # 0
       THEN Reject(op, ReadGate(u, pid), u, pid)
       ELSE /\ Respond(op, 200, u, pid, RowsOf(pid, kind))
            /\ UNCHANGED <<nonProjVars, projVars>>

create_project_step(u, pid, step_number, val) ==
    IF AuthorGate(u, pid) # 0
    THEN Reject("write_row", AuthorGate(u, pid), u, pid)
    ELSE IF \E r \in RowsOf(pid, "step") : rows[r].n = step_number
    THEN Reject("write_row", 400, u, pid)
    ELSE InsertRow("write_row", u, pid, Row("step", pid, val, step_number))

list_project_steps(u, pid) == ListRows("read_rows", u, pid, "step")

update_project_step(u, pid, rid, val) ==
    IF AuthorGate(u, pid) # 0
    THEN Reject("write_row", AuthorGate(u, pid), u, pid)
    ELSE IF ~FindRow("step", pid, rid)
    THEN Reject("write_row", 404, u, pid)
    ELSE UpdateRow("write_row", u, pid, rid, val)

delete_project_step(u, pid, rid) ==
    IF AuthorGate(u, pid) # 0
    THEN Reject("write_row", AuthorGate(u, pid), u, pid)
    ELSE IF ~FindRow("step", pid, rid)
    THEN Reject("write_row", 404, u, pid)
    ELSE DeleteRow("write_row", u, pid, rid)

create_bom_item(u, pid, val) ==
    IF AuthorGate(u, pid) # 0
    THEN Reject("write_row", AuthorGate(u, pid), u, pid)
    ELSE InsertRow("write_row", u, pid, Row("bom", pid, val, 0))

list_bom_items(u, pid) == ListRows("read_rows", u, pid, "bom")

update_bom_item(u, pid, rid, val) ==
    IF AuthorGate(u, pid) # 0
    THEN Reject("write_row", AuthorGate(u, pid), u, pid)
    ELSE IF ~FindRow("bom", pid, rid)
    THEN Reject("write_row", 404, u, pid)
    ELSE UpdateRow("write_row", u, pid, rid, val)

delete_bom_item(u, pid, rid) ==
    IF AuthorGate(u, pid) # 0
    THEN Reject("write_row", AuthorGate(u, pid), u, pid)
    ELSE IF ~FindRow("bom", pid, rid)
    THEN Reject("write_row", 404, u, pid)
    ELSE DeleteRow("write_row", u, pid, rid)

ComponentIds == {1}

create_component(u, c) ==
    IF AuthGate(u) # 0
    THEN Reject("create_component", AuthGate(u), u, NONE)
    ELSE IF c \in components
    THEN Reject("create_component", 400, u, NONE)
    ELSE /\ components' = components \cup {c}
         /\ Respond("create_component", 201, u, NONE, NoSet)
         /\ UNCHANGED <<nonProjVars, projects, nextProjectId, rows, nextRowId>>

add_component_to_project(u, pid, c) ==
    IF AuthorGate(u, pid) # 0
    THEN Reject("write_row", AuthorGate(u, pid), u, pid)
    ELSE IF c \notin components
    THEN Reject("write_row", 404, u, pid)
    ELSE IF \E r \in RowsOf(pid, "component") : rows[r].n = c
    THEN Reject("write_row", 400, u, pid)
    ELSE InsertRow("write_row", u, pid, Row("component", pid, "x", c))

list_project_components(u, pid) ==
    /\ OptionalUser(u)
    /\ IF ReadGate(u, pid) # 0
       THEN Reject("read_rows", ReadGate(u, pid), u, pid)
       ELSE /\ Respond("read_rows", 200, u, pid,
                       {r \in RowsOf(pid, "component") : rows[r].n \in components})
            /\ UNCHANGED <<nonProjVars, projVars>>

remove_component_from_project(u, pid, rid) ==
    IF AuthorGate(u, pid) # 0
    THEN Reject("write_row", AuthorGate(u, pid), u, pid)
    ELSE IF ~FindRow("component", pid, rid)
    THEN Reject("write_row", 404, u, pid)
    ELSE DeleteRow("write_row", u, pid, rid)

create_project_link(u, pid, val) ==
    IF AuthorGate(u, pid) # 0
    THEN Reject("write_row", AuthorGate(u, pid), u, pid)
    ELSE InsertRow("write_row", u, pid, Row("link", pid, val, 0))

list_project_links(u, pid) == ListRows("read_rows", u, pid, "link")

update_project_link(u, pid, rid, val) ==
    IF AuthorGate(u, pid) # 0
    THEN Reject("write_row", AuthorGate(u, pid), u, pid)
    ELSE IF ~FindRow("link", pid, rid)
    THEN Reject("write_row", 404, u, pid)
    ELSE UpdateRow("write_row", u, pid, rid, val)

delete_project_link(u, pid, rid) ==
    IF AuthorGate(u, pid) # 0
    THEN Reject("write_row", AuthorGate(u, pid), u, pid)
    ELSE IF ~FindRow("link", pid, rid)
    THEN Reject("write_row", 404, u, pid)
    ELSE DeleteRow("write_row", u, pid, rid)

create_tool_material(u, pid, val) ==
    IF AuthorGate(u, pid) # 0
    THEN Reject("write_row", AuthorGate(u, pid), u, pid)
    ELSE InsertRow("write_row", u, pid, Row("tool", pid, val, 0))

list_tools_materials(u, pid) == ListRows("read_rows", u, pid, "tool")

update_tool_material(u, pid, rid, val) ==
    IF AuthorGate(u, pid) # 0
    THEN Reject("write_row", AuthorGate(u, pid), u, pid)
    ELSE IF ~FindRow("tool", pid, rid)
    THEN Reject("write_row", 404, u, pid)
    ELSE UpdateRow("write_row", u, pid, rid, val)

delete_tool_material(u, pid, rid) ==
    IF AuthorGate(u, pid) # 0
    THEN Reject("write_row", AuthorGate(u, pid), u, pid)
    ELSE IF ~FindRow("tool", pid, rid)
    THEN Reject("write_row", 404, u, pid)
    ELSE DeleteRow("write_row", u, pid, rid)

(* ext_ok: the suffix is in the allowed set; stored: the NAS or the local  *)
(* disk accepted the bytes.                                                *)
upload_project_file(u, pid, ext_ok, file_size, stored) ==
    IF AuthorGate(u, pid) # 0
    THEN Reject("write_row", AuthorGate(u, pid), u, pid)
    ELSE IF ~ext_ok
    THEN Reject("write_row", 400, u, pid)
    ELSE IF file_size > MAX_PROJECT_FILE_SIZE
    THEN Reject("write_row", 400, u, pid)
    ELSE IF ~stored
    THEN Reject("write_row", 500, u, pid)
    ELSE InsertRow("write_row", u, pid, Row("file", pid, "x", file_size))

list_project_files(u, pid) == ListRows("read_rows", u, pid, "file")

delete_project_file(u, pid, rid) ==
    IF AuthorGate(u, pid) # 0
    THEN Reject("write_row", AuthorGate(u, pid), u, pid)
    ELSE IF ~FindRow("file", pid, rid)
    THEN Reject("write_row", 404, u, pid)
    ELSE DeleteRow("write_row", u, pid, rid)

upload_project_image(u, pid, ext_ok, file_size, stored) ==
    IF AuthorGate(u, pid) # 0
    THEN Reject("write_row", AuthorGate(u, pid), u, pid)
    ELSE IF ~ext_ok
    THEN Reject("write_row", 400, u, pid)
    ELSE IF file_size > MAX_PROJECT_IMAGE_SIZE
    THEN Reject("write_row", 400, u, pid)
    ELSE IF ~stored
    THEN Reject("write_row", 500, u, pid)
    ELSE InsertRow("write_row", u, pid, Row("image", pid, "x", 0))

list_project_images(u, pid) == ListRows("read_rows", u, pid, "image")

set_primary_image(u, pid, rid) ==
    IF AuthorGate(u, pid) # 0
    THEN Reject("write_row", AuthorGate(u, pid), u, pid)
    ELSE IF ~FindRow("image", pid, rid)
    THEN Reject("write_row", 404, u, pid)
    ELSE /\ projects' = [projects EXCEPT ![pid].primary_image_id = rid]
         /\ Respond("write_row", 200, u, pid, NoSet)
         /\ UNCHANGED <<nonProjVars, nextProjectId, rows, nextRowId, components>>

delete_project_image(u, pid, rid) ==
    IF AuthorGate(u, pid) # 0
    THEN Reject("write_row", AuthorGate(u, pid), u, pid)
    ELSE IF ~FindRow("image", pid, rid)
    THEN Reject("write_row", 404, u, pid)
    ELSE /\ projects' = [projects EXCEPT ![pid].primary_image_id =
                            IF @ = rid THEN NONE ELSE @]
         /\ rows' = Drop(rows, {rid})
         /\ Respond("write_row", 204, u, pid, NoSet)
         /\ UNCHANGED <<nonProjVars, nextProjectId, nextRowId, components>>

download_project(u, pid) ==
    /\ OptionalUser(u)
    /\ IF ReadGate(u, pid) # 0
       THEN Reject("download_project", ReadGate(u, pid), u, pid)
       ELSE IF projects[pid].author_id \notin DOMAIN users
       THEN Reject("download_project", 404, u, pid)
       ELSE /\ projects[pid].download_count < MaxCount
            /\ projects' = [projects EXCEPT ![pid].download_count = @ + 1]
            /\ Respond("download_project", 200, u, pid,
                       RowsOf(pid, "file") \cup RowsOf(pid, "image"))
            /\ UNCHANGED <<nonProjVars, nextProjectId, rows, nextRowId, components>>

(***************************************************************************)
(* Likes and comments (the rows; their handlers follow further down)       *)
(***************************************************************************)
Like(url, user_id) == [url |-> url, user_id |-> user_id, created_at |-> now]

Comment(url, content, user_id, parent_comment_id) ==
    [url |-> url, content |-> content, user_id |-> user_id,
     parent_comment_id |-> parent_comment_id, created_at |-> now,
     edited_at |-> NONE, is_flagged |-> FALSE, flag_count |-> 0,
     flag_reasons |-> <<>>, is_hidden |-> FALSE, reviewed_at |-> NONE,
     reviewed_by |-> NONE, is_removed |-> FALSE, removed_at |-> NONE,
     reply_count |-> 0, like_count |-> 0]

CommentVersion(comment_id, content, edited_at) ==
    [comment_id |-> comment_id, content |-> content, edited_at |-> edited_at]

(***************************************************************************)
(* Deleting a user row.  The relationships of User cascade the delete to   *)
(* the user's likes, comments (and their versions) and account logs, and   *)
(* null the references reviewed_by and changed_by.  Project.author_id and  *)
(* the parent_comment_id of other users' replies are plain foreign keys:   *)
(* a database that enforces them refuses the delete, one that does not     *)
(* (SQLite, the fallback of database.py) leaves the rows dangling.         *)
(***************************************************************************)
CommentsOf(u) == {c \in DOMAIN comments : comments[c].user_id = u}

HasDependents(u) ==
    \/ \E p \in DOMAIN projects : projects[p].author_id = u
    \/ \E c \in DOMAIN comments :
          /\ comments[c].user_id # u
          /\ comments[c].parent_comment_id \in CommentsOf(u)

RemoveUser(u) ==
    /\ users' = Drop(users, {u})
    /\ likes' = Drop(likes, {l \in DOMAIN likes : likes[l].user_id = u})
    /\ comments' = [c \in DOMAIN comments \ CommentsOf(u) |->
                       [comments[c] EXCEPT !.reviewed_by =
                            IF @ = u THEN NONE ELSE @]]
    /\ versions' = SelectSeq(versions,
                             LAMBDA v : v.comment_id \notin CommentsOf(u))
    /\ account_logs' =
          [i \in DOMAIN SelectSeq(account_logs, LAMBDA e : e.user_id # u) |->
              [SelectSeq(account_logs, LAMBDA e : e.user_id # u)[i]
                  EXCEPT !.changed_by = IF @ = u THEN NONE ELSE @]]

(* POST /account/delete; fk_enforced: the database checks foreign keys *)
auth_delete_account(u, fk_enforced) ==
    IF AuthGate(u) # 0
    THEN /\ Respond("auth_delete_account", AuthGate(u), u, u, NoSet)
         /\ UNCHANGED <<nonProjVars, projVars>>
    ELSE IF HasDependents(u) /\ fk_enforced
    THEN /\ Respond("auth_delete_account", 500, u, u, NoSet)
         /\ UNCHANGED <<nonProjVars, projVars>>
    ELSE /\ RemoveUser(u)
         /\ Respond("auth_delete_account", 303, u, u, NoSet)
         /\ UNCHANGED <<nextUserId, nextLikeId, nextCommentId, authVars,
                        inflight, page_views, commentLikeVars, projVars>>

(***************************************************************************)
(* Accounts                                                                *)
(***************************************************************************)
Usernames == {"ann", "bob"}
EmailInputs == {"a@x", "b@x", "b@X"}
Passwords == {"pw1", "pw2"}

(* pydantic's EmailStr lower-cases the domain of the address *)
EmailStr(e) == IF e = "b@X" THEN "b@x" ELSE e

AccountLog(user_id, action, field_changed, old_value, new_value, changed_by) ==
    [user_id |-> user_id, action |-> action, field_changed |-> field_changed,
     old_value |-> old_value, new_value |-> new_value, changed_by |-> changed_by]

EmailTaken_Never(email) == FALSE

(* select(User).where(User.username == ...) / (User.email == ...) *)
UsernameTaken(username) == \E v \in DOMAIN users : users[v].username = username
EmailTaken(email) == \E v \in DOMAIN users : users[v].email = email

RejectAccount(op, status, u, target, arg) ==
    /\ Answer(op, status, u, target, NoSet, arg)
    /\ UNCHANGED <<nonProjVars, projVars>>

(* session.add(User(...)); session.commit() *)
InsertUser(username, email, password) ==
    /\ nextUserId <= MaxUsers
    /\ users' = Put(users, nextUserId,
                    [User(username, email, password, 0) EXCEPT !.created_at = now])
    /\ nextUserId' = nextUserId + 1

(* POST /accounts/register *)
register_account(username, email, password) ==
    IF UsernameTaken(username) \/ EmailTaken(EmailStr(email))
    THEN RejectAccount("register_account", 400, NONE, NONE, <<username, email>>)
    ELSE /\ Len(account_logs) < MaxLogs
         /\ InsertUser(username, EmailStr(email), password)
         /\ account_logs' = Append(account_logs,
                AccountLog(nextUserId, "created", NONE, NONE, NONE, nextUserId))
         /\ Answer("register_account", 201, NONE, nextUserId, NoSet,
                   <<username, email>>)
         /\ UNCHANGED <<socialVars, authVars, inflight, page_views, commentLikeVars, projVars>>

(* POST /api/register *)
register_api(username, email, password) ==
    IF UsernameTaken(username) \/ EmailTaken(EmailStr(email))
    THEN RejectAccount("register_api", 400, NONE, NONE, <<username, email>>)
    ELSE /\ InsertUser(username, EmailStr(email), password)
         /\ Answer("register_api", 200, NONE, nextUserId, NoSet, <<username, email>>)
         /\ UNCHANGED <<account_logs, socialVars, authVars, inflight, page_views, commentLikeVars, projVars>>

(* POST /register (the form): the address is stored as typed; a taken name  *)
(* or address renders the form again, which is an ordinary 200 page         *)
register_user(username, email, date_ok, password) ==
    IF UsernameTaken(username) \/ EmailTaken(email) \/ ~date_ok
    THEN RejectAccount("register_user", 200, NONE, NONE, <<username, email>>)
    ELSE /\ InsertUser(username, email, password)
         /\ Answer("register_user", 303, NONE, nextUserId, NoSet, <<username, email>>)
         /\ UNCHANGED <<account_logs, socialVars, authVars, inflight, page_views, commentLikeVars, projVars>>

accounts_update_account_OldAfterWrite(u, firstname, lastname, email) ==
    IF AuthGate(u) # 0
    THEN RejectAccount("accounts_update_account", AuthGate(u), u, u, NONE)
    ELSE LET fst == firstname # "none" /\ firstname # users[u].firstname
             lst == lastname # "none" /\ lastname # users[u].lastname
             eml == email # "none" /\ EmailStr(email) # users[u].email
             inUse == \E v \in DOMAIN users \ {u} : users[v].email = EmailStr(email)
             logs == (IF fst THEN <<AccountLog(u, "updated", "firstname",
                                     firstname, firstname, u)>> ELSE <<>>)
                     \o (IF lst THEN <<AccountLog(u, "updated", "lastname",
                                     lastname, lastname, u)>> ELSE <<>>)
                     \o (IF eml /\ ~inUse THEN <<AccountLog(u, "updated", "email",
                                     EmailStr(email), EmailStr(email), u)>> ELSE <<>>)
         IN  /\ Len(account_logs) + Len(logs) <= MaxLogs
             /\ users' = [users EXCEPT
                    ![u].firstname = IF fst THEN firstname ELSE @,
                    ![u].lastname = IF lst THEN lastname ELSE @,
                    ![u].email = IF eml /\ ~inUse THEN EmailStr(email) ELSE @]
             /\ account_logs' = account_logs \o logs
             /\ Answer("accounts_update_account",
                       IF eml /\ inUse THEN 400 ELSE 200, u, u, NoSet,
                       [firstname |-> firstname, lastname |-> lastname,
                        email |-> email])
             /\ UNCHANGED <<nextUserId, socialVars, authVars, inflight, page_views, commentLikeVars, projVars>>

(* PATCH /accounts/me.  Each changed field is logged, and log_account_change *)
(* commits: the fields changed before a refused address stay changed.       *)
(* date_of_birth is handled like lastname and is left out.                  *)
accounts_update_account(u, firstname, lastname, email) ==
    IF AuthGate(u) # 0
    THEN RejectAccount("accounts_update_account", AuthGate(u), u, u, NONE)
    ELSE LET fst == firstname # "none" /\ firstname # users[u].firstname
             lst == lastname # "none" /\ lastname # users[u].lastname
             eml == email # "none" /\ EmailStr(email) # users[u].email
             inUse == \E v \in DOMAIN users \ {u} : users[v].email = EmailStr(email)
             logs == (IF fst THEN <<AccountLog(u, "updated", "firstname",
                                     users[u].firstname, firstname, u)>> ELSE <<>>)
                     \o (IF lst THEN <<AccountLog(u, "updated", "lastname",
                                     users[u].lastname, lastname, u)>> ELSE <<>>)
                     \o (IF eml /\ ~inUse THEN <<AccountLog(u, "updated", "email",
                                     users[u].email, EmailStr(email), u)>> ELSE <<>>)
         IN  /\ Len(account_logs) + Len(logs) <= MaxLogs
             /\ users' = [users EXCEPT
                    ![u].firstname = IF fst THEN firstname ELSE @,
                    ![u].lastname = IF lst THEN lastname ELSE @,
                    ![u].email = IF eml /\ ~inUse THEN EmailStr(email) ELSE @]
             /\ account_logs' = account_logs \o logs
             /\ Answer("accounts_update_account",
                       IF eml /\ inUse THEN 400 ELSE 200, u, u, NoSet,
                       [firstname |-> firstname, lastname |-> lastname,
                        email |-> email])
             /\ UNCHANGED <<nextUserId, socialVars, authVars, inflight, page_views, commentLikeVars, projVars>>

(* POST /account/update (the form); format_ok: EmailCheckModel accepts the  *)
(* address.  The address is stored as typed.                                *)
auth_update_account(u, email, format_ok) ==
    IF AuthGate(u) # 0
    THEN RejectAccount("auth_update_account", AuthGate(u), u, u, NONE)
    ELSE IF ~format_ok
    THEN RejectAccount("auth_update_account", 200, u, u, NONE)
    ELSE IF \E v \in DOMAIN users \ {u} : users[v].email = email
    THEN RejectAccount("auth_update_account", 200, u, u, NONE)
    ELSE /\ users' = [users EXCEPT ![u].email = email]
         /\ Answer("auth_update_account", 200, u, u, NoSet, NONE)
         /\ UNCHANGED <<nextUserId, account_logs, socialVars, authVars,
                        inflight, page_views, commentLikeVars, projVars>>

(* DELETE /accounts/me: the "deleted" row is logged and committed, then the *)
(* user row is deleted, and the cascade takes the user's log rows with it.  *)
accounts_delete_account(u, fk_enforced) ==
    IF AuthGate(u) # 0
    THEN RejectAccount("accounts_delete_account", AuthGate(u), u, u, NONE)
    ELSE IF HasDependents(u) /\ fk_enforced
    THEN /\ Len(account_logs) < MaxLogs
         /\ account_logs' = Append(account_logs,
                AccountLog(u, "deleted", NONE, NONE, NONE, u))
         /\ Respond("accounts_delete_account", 500, u, u, NoSet)
         /\ UNCHANGED <<users, nextUserId, socialVars, authVars, inflight, page_views, commentLikeVars,
                        projVars>>
    ELSE /\ RemoveUser(u)
         /\ Respond("accounts_delete_account", 200, u, u, NoSet)
         /\ UNCHANGED <<nextUserId, nextLikeId, nextCommentId, authVars,
                        inflight, page_views, commentLikeVars, projVars>>

(***************************************************************************)
(* Tokens and get_current_user.  A token is what jwt.encode signed: its    *)
(* subject, its expiry and the key of the signature.  A header or cookie   *)
(* is a scheme and a token; the empty scheme is an absent header.          *)
(***************************************************************************)
Token(sub, exp, key) == [sub |-> sub, exp |-> exp, key |-> key]

EmptyToken == Token("", 0, "")
ForgedToken == Token("ann", MaxTime + TokenLife, "other key")

create_access_token(sub) == Token(sub, now + TokenLife, "SECRET_KEY")

(* jwt.decode: the signature verifies and the token has not expired *)
decode_access_token(token) ==
    IF token.key = "SECRET_KEY" /\ token.exp >= now
    THEN [ok |-> TRUE, sub |-> token.sub]
    ELSE [ok |-> FALSE, sub |-> ""]

Credential(scheme, token) == [scheme |-> scheme, token |-> token]

Absent == Credential("", EmptyToken)

(* what a client can send: nothing, a header of another scheme, or Bearer   *)
(* with an empty token, a token it made up or a token the server issued     *)
Credentials ==
    {Absent, Credential("Basic", EmptyToken)}
    \cup {Credential("Bearer", t) : t \in issued \cup {EmptyToken, ForgedToken}}

get_current_user_CookieFirst(token_cookie, token_header) ==
    LET token == IF token_cookie.scheme = "Bearer" THEN token_cookie.token
                 ELSE IF token_header.scheme = "Bearer" THEN token_header.token
                 ELSE EmptyToken
        payload == decode_access_token(token)
    IN  IF token = EmptyToken THEN [status |-> 401, id |-> NONE]
        ELSE IF ~payload.ok THEN [status |-> 401, id |-> NONE]
        ELSE IF ~UsernameTaken(payload.sub) THEN [status |-> 404, id |-> NONE]
        ELSE [status |-> 0,
              id |-> CHOOSE v \in DOMAIN users : users[v].username = payload.sub]

(* status 0: the request is authenticated as user id *)
get_current_user(token_cookie, token_header) ==
    LET token == IF token_header.scheme = "Bearer" THEN token_header.token
                 ELSE IF token_cookie.scheme = "Bearer" THEN token_cookie.token
                 ELSE EmptyToken
        payload == decode_access_token(token)
    IN  IF token = EmptyToken THEN [status |-> 401, id |-> NONE]
        ELSE IF ~payload.ok THEN [status |-> 401, id |-> NONE]
        ELSE IF ~UsernameTaken(payload.sub) THEN [status |-> 404, id |-> NONE]
        ELSE [status |-> 0,
              id |-> CHOOSE v \in DOMAIN users : users[v].username = payload.sub]

(* POST /account/delete as a request: Depends(get_current_user) in front of *)
(* the handler, which runs only when the dependency returns a user          *)
POST_account_delete(token_cookie, token_header, fk_enforced) ==
    LET current == get_current_user(token_cookie, token_header)
    IN  IF current.status # 0
        THEN RejectAccount("auth_delete_account", current.status, NONE, NONE,
                           <<token_header, token_cookie>>)
        ELSE auth_delete_account(current.id, fk_enforced)

(* GET /protected *)
protected_route(token_cookie, token_header) ==
    LET current == get_current_user(token_cookie, token_header)
    IN  /\ Answer("protected_route",
                  IF current.status # 0 THEN current.status ELSE 200,
                  current.id, NONE, NoSet, <<token_header, token_cookie>>)
        /\ UNCHANGED <<nonProjVars, projVars>>

verify_password(plain_password, hashed_password) ==
    hashed_password = hash_password(plain_password)

(* the user a login form names, if the password is the user's *)
LoginUser(username, password) ==
    {v \in DOMAIN users : /\ users[v].username = username
                          /\ verify_password(password, users[v].hashed_password)}

(* POST /api/login *)
login_api(username, password) ==
    IF LoginUser(username, password) = {}
    THEN RejectAccount("login_api", 401, NONE, NONE, NONE)
    ELSE \E v \in LoginUser(username, password) :
            /\ Cardinality(issued \cup {create_access_token(username)}) <= MaxTokens
            /\ users' = [users EXCEPT ![v].last_login = now]
            /\ issued' = issued \cup {create_access_token(username)}
            /\ Answer("login_api", 200, NONE, v, NoSet, "access_token")
            /\ UNCHANGED <<nextUserId, account_logs, socialVars, now, inflight, page_views, commentLikeVars,
                           projVars>>

(* POST /login (the form): wrong credentials render the form again; a user  *)
(* whose force_password_reset is set is sent to /force-password-reset       *)
login_user(username, password) ==
    IF LoginUser(username, password) = {}
    THEN RejectAccount("login_user", 200, NONE, NONE, NONE)
    ELSE \E v \in LoginUser(username, password) :
            /\ Cardinality(issued \cup {create_access_token(username)}) <= MaxTokens
            /\ issued' = issued \cup {create_access_token(username)}
            /\ Answer("login_user", 303, NONE, v, NoSet,
                      IF users[v].force_password_reset
                      THEN "/force-password-reset" ELSE "/account")
            /\ UNCHANGED <<userVars, socialVars, now, inflight, page_views, commentLikeVars, projVars>>

(* time passes *)
Tick ==
    /\ now < MaxTime
    /\ now' = now + 1
    /\ UNCHANGED <<userVars, socialVars, issued, inflight, page_views, commentLikeVars, projVars, resp>>

(***************************************************************************)
(* Administration of accounts (accounts.py and the admin page of auth.py)  *)
(***************************************************************************)
CodeLife == 48       \* timedelta(hours=24), in ticks of TokenLife minutes
ResetCodes == {"CODE1", "CODE2"}

(* Depends(get_admin_user) *)
get_admin_user(u) ==
    IF AuthGate(u) # 0 THEN AuthGate(u)
    ELSE IF users[u].type # 1 THEN 403
    ELSE 0

(* Depends(get_current_admin) *)
get_current_admin(u) ==
    IF AuthGate(u) # 0 THEN AuthGate(u)
    ELSE IF users[u].type # 1 THEN 403
    ELSE 0

(* PATCH /accounts/admin/{user_id}/status *)
admin_update_account_status(u, user_id, status) ==
    IF get_admin_user(u) # 0
    THEN RejectAccount("admin_update_account_status", get_admin_user(u), u,
                       user_id, NONE)
    ELSE IF status \notin {"active", "inactive"}
    THEN RejectAccount("admin_update_account_status", 400, u, user_id, NONE)
    ELSE IF user_id \notin DOMAIN users
    THEN RejectAccount("admin_update_account_status", 404, u, user_id, NONE)
    ELSE /\ Len(account_logs) < MaxLogs
         /\ users' = [users EXCEPT ![user_id].status = status]
         /\ account_logs' = Append(account_logs,
                AccountLog(user_id,
                           IF status = "active" THEN "activated"
                                                ELSE "deactivated",
                           "status", users[user_id].status, status, u))
         /\ Respond("admin_update_account_status", 200, u, user_id, NoSet)
         /\ UNCHANGED <<nextUserId, socialVars, authVars, inflight, page_views, commentLikeVars, projVars>>

(* PasswordReset / AdminPasswordReset.validate_password_strength over the   *)
(* passwords tried: 8 characters or more, with an upper-case letter, a     *)
(* lower-case letter and a digit                                           *)
StrongInputs == {"Password2", "Password3", "short", "password2"}
validate_password_strength(v) ==
    /\ Len(v) >= 8
    /\ v \in {"Password2", "Password3"}                          \* [A-Z]
    /\ v \in {"Password2", "Password3", "short", "password2"}    \* [a-z]
    /\ v \in {"Password2", "Password3", "password2"}             \* [0-9]

(* POST /accounts/reset-password *)
accounts_reset_password(u, old_password, new_password) ==
    IF AuthGate(u) # 0
    THEN RejectAccount("accounts_reset_password", AuthGate(u), u, u, NONE)
    ELSE IF ~validate_password_strength(new_password)
    THEN RejectAccount("accounts_reset_password", 422, u, u, NONE)
    ELSE IF ~verify_password(old_password, users[u].hashed_password)
    THEN RejectAccount("accounts_reset_password", 400, u, u, NONE)
    ELSE /\ Len(account_logs) < MaxLogs
         /\ users' = [users EXCEPT
                         ![u].hashed_password = hash_password(new_password)]
         /\ account_logs' = Append(account_logs,
                AccountLog(u, "updated", "password", "[REDACTED]",
                           "[REDACTED]", u))
         /\ Answer("accounts_reset_password", 200, u, u, NoSet, new_password)
         /\ UNCHANGED <<nextUserId, socialVars, authVars, inflight, page_views, commentLikeVars, projVars>>

admin_reset_password_LogsPassword(u, user_id, new_password) ==
    IF get_admin_user(u) # 0
    THEN RejectAccount("admin_reset_password", get_admin_user(u), u, user_id,
                       NONE)
    ELSE IF ~validate_password_strength(new_password)
    THEN RejectAccount("admin_reset_password", 422, u, user_id, NONE)
    ELSE IF user_id \notin DOMAIN users
    THEN RejectAccount("admin_reset_password", 404, u, user_id, NONE)
    ELSE /\ Len(account_logs) < MaxLogs
         /\ users' = [users EXCEPT
                         ![user_id].hashed_password = hash_password(new_password)]
         /\ account_logs' = Append(account_logs,
                AccountLog(user_id, "updated", "password", "[REDACTED]",
                           new_password, u))
         /\ Answer("admin_reset_password", 200, u, user_id, NoSet, new_password)
         /\ UNCHANGED <<nextUserId, socialVars, authVars, inflight, page_views, commentLikeVars, projVars>>

(* POST /accounts/admin/{user_id}/reset-password *)
admin_reset_password(u, user_id, new_password) ==
    IF get_admin_user(u) # 0
    THEN RejectAccount("admin_reset_password", get_admin_user(u), u, user_id,
                       NONE)
    ELSE IF ~validate_password_strength(new_password)
    THEN RejectAccount("admin_reset_password", 422, u, user_id, NONE)
    ELSE IF user_id \notin DOMAIN users
    THEN RejectAccount("admin_reset_password", 404, u, user_id, NONE)
    ELSE /\ Len(account_logs) < MaxLogs
         /\ users' = [users EXCEPT
                         ![user_id].hashed_password = hash_password(new_password)]
         /\ account_logs' = Append(account_logs,
                AccountLog(user_id, "updated", "password", "[REDACTED]",
                           "[REDACTED]", u))
         /\ Answer("admin_reset_password", 200, u, user_id, NoSet, new_password)
         /\ UNCHANGED <<nextUserId, socialVars, authVars, inflight, page_views, commentLikeVars, projVars>>

(* DELETE /accounts/admin/{user_id}: the "deleted" row is logged and       *)
(* committed, then the user row is deleted with its log rows               *)
admin_delete_account(u, user_id, fk_enforced) ==
    IF get_admin_user(u) # 0
    THEN RejectAccount("admin_delete_account", get_admin_user(u), u, user_id,
                       NONE)
    ELSE IF user_id \notin DOMAIN users
    THEN RejectAccount("admin_delete_account", 404, u, user_id, NONE)
    ELSE IF user_id = u
    THEN RejectAccount("admin_delete_account", 400, u, user_id, NONE)
    ELSE IF HasDependents(user_id) /\ fk_enforced
    THEN /\ Len(account_logs) < MaxLogs
         /\ account_logs' = Append(account_logs,
                AccountLog(user_id, "deleted", NONE, NONE, NONE, u))
         /\ Respond("admin_delete_account", 500, u, user_id, NoSet)
         /\ UNCHANGED <<users, nextUserId, socialVars, authVars, inflight, page_views, commentLikeVars,
                        projVars>>
    ELSE /\ RemoveUser(user_id)
         /\ Respond("admin_delete_account", 200, u, user_id, NoSet)
         /\ UNCHANGED <<nextUserId, nextLikeId, nextCommentId, authVars,
                        inflight, page_views, commentLikeVars, projVars>>

(* POST /admin/force-password-reset/{user_id}: an unknown user and the     *)
(* administrator's own id render the admin page with an error              *)
force_password_reset(u, user_id) ==
    IF get_current_admin(u) # 0
    THEN RejectAccount("force_password_reset", get_current_admin(u), u,
                       user_id, NONE)
    ELSE IF user_id \notin DOMAIN users \/ user_id = u
    THEN RejectAccount("force_password_reset", 200, u, user_id, NONE)
    ELSE /\ users' = [users EXCEPT ![user_id].force_password_reset = TRUE]
         /\ Respond("force_password_reset", 200, u, user_id, NoSet)
         /\ UNCHANGED <<nextUserId, account_logs, socialVars, authVars,
                        inflight, page_views, commentLikeVars, projVars>>

(* POST /admin/generate-reset-code/{user_id}; reset_code is what           *)
(* secrets.choice drew                                                     *)
generate_reset_code(u, user_id, reset_code) ==
    IF get_current_admin(u) # 0
    THEN RejectAccount("generate_reset_code", get_current_admin(u), u,
                       user_id, NONE)
    ELSE IF user_id \notin DOMAIN users
    THEN RejectAccount("generate_reset_code", 200, u, user_id, NONE)
    ELSE /\ users' = [users EXCEPT ![user_id].password_reset_code = reset_code,
                                   ![user_id].code_expires_at = now + CodeLife]
         /\ Answer("generate_reset_code", 200, u, user_id, NoSet, reset_code)
         /\ UNCHANGED <<nextUserId, account_logs, socialVars, authVars,
                        inflight, page_views, commentLikeVars, projVars>>

(* what a reset form may carry as code and as new password *)
CodeInputs == ResetCodes \cup {"code1", "NOCODE"}
NewPasswords == {"password2", "short"}

(* str.upper() on the codes above *)
upper(code) == IF code = "code1" THEN "CODE1" ELSE code

(* select(User).where(User.username == username).first() *)
UserNamed(username) == {v \in DOMAIN users : users[v].username = username}

RejectReset(username, reset_code, new_password) ==
    RejectAccount("handle_reset_password", 200, NONE,
                  IF UserNamed(username) = {} THEN NONE
                  ELSE CHOOSE v \in UserNamed(username) : TRUE,
                  [reset_code |-> reset_code, new_password |-> new_password])

handle_reset_password_KeepCode(username, reset_code, new_password, confirm_password) ==
    IF \/ new_password # confirm_password
       \/ Len(new_password) < 8
       \/ UserNamed(username) = {}
    THEN RejectReset(username, reset_code, new_password)
    ELSE LET v == CHOOSE w \in UserNamed(username) : TRUE
             user == users[v]
         IN  IF \/ user.password_reset_code = NoCode
                \/ upper(user.password_reset_code) # upper(reset_code)
                \/ (user.code_expires_at # NONE /\ user.code_expires_at < now)
             THEN RejectReset(username, reset_code, new_password)
             ELSE /\ users' = [users EXCEPT
                       ![v].hashed_password = hash_password(new_password)]
                  /\ Answer("handle_reset_password", 303, NONE, v, NoSet,
                            [reset_code |-> reset_code,
                             new_password |-> new_password])
                  /\ UNCHANGED <<nextUserId, account_logs, socialVars,
                                 authVars, inflight, page_views, commentLikeVars, projVars>>

(* POST /reset-password *)
handle_reset_password(username, reset_code, new_password, confirm_password) ==
    IF \/ new_password # confirm_password
       \/ Len(new_password) < 8
       \/ UserNamed(username) = {}
    THEN RejectReset(username, reset_code, new_password)
    ELSE LET v == CHOOSE w \in UserNamed(username) : TRUE
             user == users[v]
         IN  IF \/ user.password_reset_code = NoCode
                \/ upper(user.password_reset_code) # upper(reset_code)
                \/ (user.code_expires_at # NONE /\ user.code_expires_at < now)
             THEN RejectReset(username, reset_code, new_password)
             ELSE /\ users' = [users EXCEPT
                       ![v].hashed_password = hash_password(new_password),
                       ![v].password_reset_code = NoCode,
                       ![v].code_expires_at = NONE]
                  /\ Answer("handle_reset_password", 303, NONE, v, NoSet,
                            [reset_code |-> reset_code,
                             new_password |-> new_password])
                  /\ UNCHANGED <<nextUserId, account_logs, socialVars,
                                 authVars, inflight, page_views, commentLikeVars, projVars>>

(* POST /force-password-reset *)
handle_force_password_reset(u, new_password, confirm_password) ==
    IF AuthGate(u) # 0
    THEN RejectAccount("handle_force_password_reset", AuthGate(u), u, u, NONE)
    ELSE IF new_password # confirm_password \/ Len(new_password) < 8
    THEN RejectAccount("handle_force_password_reset", 200, u, u, NONE)
    ELSE /\ users' = [users EXCEPT
              ![u].hashed_password = hash_password(new_password),
              ![u].force_password_reset = FALSE]
         /\ Respond("handle_force_password_reset", 303, u, u, NoSet)
         /\ UNCHANGED <<nextUserId, account_logs, socialVars, authVars,
                        inflight, page_views, commentLikeVars, projVars>>

(* a day and more passes at once *)
Wait(d) ==
    /\ now + d <= MaxClock
    /\ now' = now + d
    /\ UNCHANGED <<userVars, socialVars, issued, inflight, page_views, commentLikeVars, projVars, resp>>

(***************************************************************************)
(* Comments (likes_comments.py, moderation.py)                             *)
(***************************************************************************)
Urls == {"p", "/p", "flagged"}
Contents == {"hi", "yo", "<b>hi</b>", "<b></b>", "x.com"}

(* str.lstrip('/') *)
lstrip(url) == IF url = "/p" THEN "p" ELSE url

(* tags removed, whitespace normalised and trimmed *)
sanitize_content(content) ==
    IF content = "<b>hi</b>" THEN "hi"
    ELSE IF content = "<b></b>" THEN ""
    ELSE content

(* is_valid of validate_comment_content: not empty, no URL *)
validate_comment_content(content) ==
    /\ content # ""
    /\ content # "x.com"

(* POST /comment *)
comment_url(u, url, content, parent_comment_id) ==
    LET sanitized_content == sanitize_content(content)
    IN  IF AuthGate(u) # 0
        THEN RejectAccount("comment_url", AuthGate(u), u, NONE, NONE)
        ELSE IF ~validate_comment_content(sanitized_content)
        THEN RejectAccount("comment_url", 400, u, NONE, NONE)
        ELSE IF parent_comment_id # NONE
                /\ parent_comment_id \notin DOMAIN comments
        THEN RejectAccount("comment_url", 404, u, NONE, NONE)
        ELSE IF parent_comment_id # NONE
                /\ (\/ comments[parent_comment_id].is_removed
                    \/ comments[parent_comment_id].is_hidden)
        THEN RejectAccount("comment_url", 400, u, NONE, NONE)
        ELSE /\ nextCommentId <= MaxComments
             /\ comments' =
                   Put(IF parent_comment_id # NONE
                       THEN [comments EXCEPT
                                ![parent_comment_id].reply_count = @ + 1]
                       ELSE comments,
                       nextCommentId,
                       Comment(lstrip(url), sanitized_content, u,
                               parent_comment_id))
             /\ nextCommentId' = nextCommentId + 1
             /\ Respond("comment_url", 200, u, nextCommentId, NoSet)
             /\ UNCHANGED <<userVars, likes, nextLikeId, versions, authVars,
                            inflight, page_views, commentLikeVars, projVars>>

(* UPDATE comment SET ... WHERE id = comment_id *)
WriteComment(op, u, comment_id, row) ==
    /\ comments' = [comments EXCEPT ![comment_id] = row]
    /\ Respond(op, 200, u, comment_id, NoSet)
    /\ UNCHANGED <<userVars, likes, nextLikeId, nextCommentId, versions,
                   authVars, inflight, page_views, commentLikeVars, projVars>>

(* POST /comments/{comment_id}/report *)
report_comment(u, comment_id, reason) ==
    IF AuthGate(u) # 0
    THEN RejectAccount("report_comment", AuthGate(u), u, comment_id, NONE)
    ELSE IF comment_id \notin DOMAIN comments
    THEN RejectAccount("report_comment", 404, u, comment_id, NONE)
    ELSE /\ comments[comment_id].flag_count < MaxFlags
         /\ WriteComment("report_comment", u, comment_id,
               [comments[comment_id] EXCEPT
                   !.flag_count = @ + 1,
                   !.is_flagged = TRUE,
                   !.flag_reasons = Append(@, [reported_by |-> u,
                                               reason |-> reason])])

(* GET /comments/flagged as get_flagged_comments answers it *)
get_flagged_comments(u, request) ==
    IF AuthGate(u) # 0
    THEN RejectAccount("get_flagged_comments", AuthGate(u), u, NONE, request)
    ELSE IF users[u].type # 1
    THEN RejectAccount("get_flagged_comments", 403, u, NONE, request)
    ELSE /\ Answer("get_flagged_comments", 200, u, NONE,
                   {c \in DOMAIN comments :
                       /\ comments[c].is_flagged
                       /\ comments[c].user_id \in DOMAIN users},
                   request)
         /\ UNCHANGED <<nonProjVars, projVars>>

(* the three moderation handlers: 403 unless the caller's type is 1, 404   *)
(* for an unknown comment, otherwise the row is written as reviewed        *)
Moderate(op, admin, comment_id, row) ==
    IF AuthGate(admin) # 0
    THEN RejectAccount(op, AuthGate(admin), admin, comment_id, NONE)
    ELSE IF users[admin].type # 1
    THEN RejectAccount(op, 403, admin, comment_id, NONE)
    ELSE IF comment_id \notin DOMAIN comments
    THEN RejectAccount(op, 404, admin, comment_id, NONE)
    ELSE WriteComment(op, admin, comment_id, row)

Reviewed(comment_id, admin) ==
    [comments[comment_id] EXCEPT !.reviewed_at = now, !.reviewed_by = admin]

(* POST /comments/{comment_id}/hide *)
hide_comment(admin, comment_id) ==
    Moderate("hide_comment", admin, comment_id,
             [Reviewed(comment_id, admin) EXCEPT !.is_hidden = TRUE])

(* POST /comments/{comment_id}/unhide *)
unhide_comment(admin, comment_id) ==
    Moderate("unhide_comment", admin, comment_id,
             [Reviewed(comment_id, admin) EXCEPT !.is_hidden = FALSE])

(* POST /comments/{comment_id}/clear-flags *)
clear_comment_flags(admin, comment_id) ==
    Moderate("clear_comment_flags", admin, comment_id,
             [Reviewed(comment_id, admin) EXCEPT !.is_flagged = FALSE])

edit_comment_VersionAfterUpdate(u, comment_id, content) ==
    LET sanitized_content == sanitize_content(content)
    IN  IF AuthGate(u) # 0
        THEN RejectAccount("edit_comment", AuthGate(u), u, comment_id, content)
        ELSE IF comment_id \notin DOMAIN comments
        THEN RejectAccount("edit_comment", 404, u, comment_id, content)
        ELSE IF comments[comment_id].user_id # u
        THEN RejectAccount("edit_comment", 403, u, comment_id, content)
        ELSE IF ~validate_comment_content(sanitized_content)
        THEN RejectAccount("edit_comment", 400, u, comment_id, content)
        ELSE /\ Len(versions) < MaxVersions
             /\ versions' = Append(versions,
                   CommentVersion(comment_id, sanitized_content, now))
             /\ comments' = [comments EXCEPT
                                ![comment_id].content = sanitized_content,
                                ![comment_id].edited_at = now]
             /\ Answer("edit_comment", 200, u, comment_id, NoSet, content)
             /\ UNCHANGED <<userVars, likes, nextLikeId, nextCommentId,
                            authVars, inflight, page_views, commentLikeVars, projVars>>

(* PUT /comments/{comment_id} *)
edit_comment(u, comment_id, content) ==
    LET sanitized_content == sanitize_content(content)
    IN  IF AuthGate(u) # 0
        THEN RejectAccount("edit_comment", AuthGate(u), u, comment_id, content)
        ELSE IF comment_id \notin DOMAIN comments
        THEN RejectAccount("edit_comment", 404, u, comment_id, content)
        ELSE IF comments[comment_id].user_id # u
        THEN RejectAccount("edit_comment", 403, u, comment_id, content)
        ELSE IF ~validate_comment_content(sanitized_content)
        THEN RejectAccount("edit_comment", 400, u, comment_id, content)
        ELSE /\ Len(versions) < MaxVersions
             /\ versions' = Append(versions,
                   CommentVersion(comment_id, comments[comment_id].content,
                       IF comments[comment_id].edited_at # NONE
                       THEN comments[comment_id].edited_at
                       ELSE comments[comment_id].created_at))
             /\ comments' = [comments EXCEPT
                                ![comment_id].content = sanitized_content,
                                ![comment_id].edited_at = now]
             /\ Answer("edit_comment", 200, u, comment_id, NoSet, content)
             /\ UNCHANGED <<userVars, likes, nextLikeId, nextCommentId,
                            authVars, inflight, page_views, commentLikeVars, projVars>>

remove_comment_Again(u, comment_id) ==
    IF AuthGate(u) # 0
    THEN RejectAccount("remove_comment", AuthGate(u), u, comment_id, NONE)
    ELSE IF comment_id \notin DOMAIN comments
    THEN RejectAccount("remove_comment", 404, u, comment_id, NONE)
    ELSE IF comments[comment_id].user_id # u
    THEN RejectAccount("remove_comment", 403, u, comment_id, NONE)
    ELSE WriteComment("remove_comment", u, comment_id,
            [comments[comment_id] EXCEPT !.is_removed = TRUE,
                                         !.removed_at = now])

remove_comment_NoAuthorTest(u, comment_id) ==
    IF AuthGate(u) # 0
    THEN RejectAccount("remove_comment", AuthGate(u), u, comment_id, NONE)
    ELSE IF comment_id \notin DOMAIN comments
    THEN RejectAccount("remove_comment", 404, u, comment_id, NONE)
    ELSE IF comments[comment_id].is_removed
    THEN RejectAccount("remove_comment", 400, u, comment_id, NONE)
    ELSE WriteComment("remove_comment", u, comment_id,
            [comments[comment_id] EXCEPT !.is_removed = TRUE,
                                         !.removed_at = now])

(* DELETE /comments/{comment_id} *)
remove_comment(u, comment_id) ==
    IF AuthGate(u) # 0
    THEN RejectAccount("remove_comment", AuthGate(u), u, comment_id, NONE)
    ELSE IF comment_id \notin DOMAIN comments
    THEN RejectAccount("remove_comment", 404, u, comment_id, NONE)
    ELSE IF comments[comment_id].user_id # u
    THEN RejectAccount("remove_comment", 403, u, comment_id, NONE)
    ELSE IF comments[comment_id].is_removed
    THEN RejectAccount("remove_comment", 400, u, comment_id, NONE)
    ELSE WriteComment("remove_comment", u, comment_id,
            [comments[comment_id] EXCEPT !.is_removed = TRUE,
                                         !.removed_at = now])

(* the orders ORDER BY key DESC may return S in (ties in any order) *)
Descending(S, key) ==
    {s \in [1..Cardinality(S) -> S] :
        /\ \A i, j \in DOMAIN s : i # j => s[i] # s[j]
        /\ \A i, j \in DOMAIN s : i < j => key[s[i]] >= key[s[j]]}

(* GET /comments/{comment_id:int}/versions as get_comment_versions answers *)
(* it: the positions in the version table of the comment's versions,       *)
(* newest first                                                            *)
get_comment_versions(comment_id, request) ==
    IF comment_id \notin DOMAIN comments
    THEN RejectAccount("get_comment_versions", 404, NONE, comment_id, request)
    ELSE /\ \E s \in Descending({i \in DOMAIN versions :
                                    versions[i].comment_id = comment_id},
                                [i \in DOMAIN versions |->
                                    versions[i].edited_at]) :
               Answer("get_comment_versions", 200, NONE, comment_id, s, request)
         /\ UNCHANGED <<nonProjVars, projVars>>

all_comments_dict_NoHiddenTest(url) ==
    {c \in DOMAIN comments :
        /\ comments[c].url = url
        /\ comments[c].user_id \in DOMAIN users
        /\ ~comments[c].is_removed}

(* all_comments_dict of get_comments_with_usernames: the rows of the query *)
all_comments_dict(url) ==
    {c \in DOMAIN comments :
        /\ comments[c].url = url
        /\ comments[c].user_id \in DOMAIN users
        /\ ~comments[c].is_hidden
        /\ ~comments[c].is_removed}

(* c is in the tree returned: a top-level row, or a reply appended to the  *)
(* replies of a parent that is in the tree (a reply whose parent is not    *)
(* among the rows is appended nowhere)                                     *)
RECURSIVE InHierarchy(_, _)
InHierarchy(c, url) ==
    /\ c \in all_comments_dict(url)
    /\ \/ comments[c].parent_comment_id = NONE
       \/ InHierarchy(comments[c].parent_comment_id, url)

(* GET /comments/{url:path} as get_comments_with_usernames answers it; the *)
(* response is recorded as the set of comments it contains                 *)
get_comments_with_usernames(url, current_user, request) ==
    /\ OptionalUser(current_user)
    /\ Answer("get_comments_with_usernames", 200, current_user, NONE,
              {c \in DOMAIN comments : InHierarchy(c, lstrip(url))}, request)
    /\ UNCHANGED <<nonProjVars, projVars>>

(* GET /profile/{username}/comments *)
get_user_comments(username, limit, offset) ==
    LET user == {v \in DOMAIN users : users[v].username = username}
    IN  IF user = {} \/ \E v \in user : users[v].status # "active"
        THEN RejectAccount("get_user_comments", 404, NONE, NONE, username)
        ELSE /\ \E v \in user :
                \E s \in Descending({c \in DOMAIN comments :
                                        /\ comments[c].user_id = v
                                        /\ ~comments[c].is_removed
                                        /\ ~comments[c].is_hidden},
                                    [c \in DOMAIN comments |->
                                        comments[c].created_at]) :
                   Answer("get_user_comments", 200, NONE, v,
                          {s[i] : i \in {k \in DOMAIN s : k > offset
                                                     /\ k <= offset + limit}},
                          [limit |-> limit, offset |-> offset])
             /\ UNCHANGED <<nonProjVars, projVars>>

(***************************************************************************)
(* The GET routes under /comments/, in the order the router declares them. *)
(* A request path is the sequence of its segments after /comments/; the    *)
(* first route whose pattern matches the path serves the request.          *)
(***************************************************************************)
Digits == {"1", "2"}

(* the int convertor *)
int(segment) == IF segment = "1" THEN 1 ELSE 2

GET_comments_routes ==
    << [path |-> <<"{comment_id:int}", "versions">>,
        endpoint |-> "get_comment_versions"],
       [path |-> <<"{url:path}">>,
        endpoint |-> "get_comments_with_usernames"],
       [path |-> <<"flagged">>,
        endpoint |-> "get_flagged_comments"] >>

(* Route.matches: {x:int} matches digits, {x:path} matches the rest of the *)
(* path whatever it is, {x} matches any one segment, a literal matches     *)
(* itself                                                                  *)
Matches(pattern, path) ==
    \/ pattern = <<"{url:path}">>
    \/ /\ Len(pattern) = Len(path)
       /\ \A i \in DOMAIN pattern :
             IF pattern[i] = "{comment_id:int}" THEN path[i] \in Digits
             ELSE IF pattern[i] = "{step_id}" THEN TRUE
             ELSE pattern[i] = path[i]

(* Router: the first route that matches *)
RouteOf(routes, path) ==
    routes[CHOOSE i \in DOMAIN routes :
              /\ Matches(routes[i].path, path)
              /\ \A j \in 1..(i - 1) : ~Matches(routes[j].path, path)]

(* the url parameter of {url:path} *)
PathParam(path) ==
    IF Len(path) = 1 THEN path[1] ELSE path[1] \o "/" \o path[2]

Paths == {<<"p">>, <<"flagged">>, <<"1", "versions">>, <<"2", "versions">>}

(* GET /comments/<path> by u *)
GET_comments(path, u) ==
    LET endpoint == RouteOf(GET_comments_routes, path).endpoint
    IN  IF endpoint = "get_comment_versions"
        THEN get_comment_versions(int(path[1]), path)
        ELSE IF endpoint = "get_comments_with_usernames"
        THEN get_comments_with_usernames(PathParam(path), u, path)
        ELSE get_flagged_comments(u, path)

(***************************************************************************)
(* Likes (likes.py, likes_comments.py).  The handlers are plain functions, *)
(* which the framework runs in threads, each with a session of its own:    *)
(* a request is served in two steps, its SELECT and, later, its commit,    *)
(* and other requests may run in between.  inflight holds the requests     *)
(* that have done their SELECT, with the row it found.                     *)
(***************************************************************************)
Request(op, u, url, existing_like) ==
    [op |-> op, user |-> u, url |-> url, existing_like |-> existing_like]

(* select(Like).where(Like.url == url, Like.user_id == user).first() *)
ExistingLikes(u, url) ==
    {l \in DOMAIN likes : likes[l].url = url /\ likes[l].user_id = u}

FirstOf(S) == IF S = {} THEN {NONE} ELSE S

(* a request enters: its dependencies are resolved and its SELECT is done *)
Begin(op, u, url) ==
    IF AuthGate(u) # 0
    THEN RejectAccount(op, AuthGate(u), u, NONE, NONE)
    ELSE /\ Len(inflight) < MaxInflight
         /\ \E existing_like \in FirstOf(ExistingLikes(u, url)) :
               inflight' = Append(inflight, Request(op, u, url, existing_like))
         /\ UNCHANGED <<userVars, socialVars, authVars, page_views, commentLikeVars, projVars, resp>>

Finish(i) ==
    inflight' = [j \in 1..(Len(inflight) - 1) |->
                    IF j < i THEN inflight[j] ELSE inflight[j + 1]]

(* session.add(Like(...)); session.commit() *)
InsertLike(url, u) ==
    /\ nextLikeId <= MaxLikes
    /\ likes' = Put(likes, nextLikeId, Like(url, u))
    /\ nextLikeId' = nextLikeId + 1

(* select(func.count(Like.id)).where(Like.url == url), after the commit *)
like_count(url) == Cardinality({l \in DOMAIN likes' : likes'[l].url = url})

(* POST /api/likes, through its SELECT: the url is used as given *)
create_like(u, url) == Begin("create_like", u, url)

(* POST /api/likes, from the test of existing_like to the response *)
create_like_commit(i) ==
    /\ i \in DOMAIN inflight
    /\ inflight[i].op = "create_like"
    /\ Finish(i)
    /\ IF inflight[i].existing_like # NONE
       THEN /\ Respond("create_like", 409, inflight[i].user,
                       inflight[i].existing_like, NoSet)
            /\ UNCHANGED <<likes, nextLikeId>>
       ELSE /\ InsertLike(inflight[i].url, inflight[i].user)
            /\ Respond("create_like", 201, inflight[i].user, nextLikeId, NoSet)
    /\ UNCHANGED <<userVars, comments, nextCommentId, versions, authVars, page_views, commentLikeVars,
                   projVars>>

(* POST /like, through its SELECT: the url is stripped of leading slashes *)
toggle_like(u, url) == Begin("toggle_like", u, lstrip(url))

(* POST /like, from the test of existing_like to the response; deleting a  *)
(* row another request has deleted meanwhile deletes nothing               *)
toggle_like_commit(i) ==
    /\ i \in DOMAIN inflight
    /\ inflight[i].op = "toggle_like"
    /\ Finish(i)
    /\ IF inflight[i].existing_like # NONE
       THEN /\ likes' = Drop(likes, {inflight[i].existing_like})
            /\ UNCHANGED nextLikeId
            /\ Answer("toggle_like", 200, inflight[i].user,
                      inflight[i].existing_like, NoSet,
                      [liked |-> FALSE, like_count |-> like_count(inflight[i].url)])
       ELSE /\ InsertLike(inflight[i].url, inflight[i].user)
            /\ Answer("toggle_like", 200, inflight[i].user, nextLikeId, NoSet,
                      [liked |-> TRUE, like_count |-> like_count(inflight[i].url)])
    /\ UNCHANGED <<userVars, comments, nextCommentId, versions, authVars, page_views, commentLikeVars,
                   projVars>>

(* DELETE /api/likes/{like_id} *)
delete_like(u, like_id) ==
    IF AuthGate(u) # 0
    THEN RejectAccount("delete_like", AuthGate(u), u, like_id, NONE)
    ELSE IF like_id \notin DOMAIN likes
    THEN RejectAccount("delete_like", 404, u, like_id, NONE)
    ELSE IF likes[like_id].user_id # u
    THEN RejectAccount("delete_like", 403, u, like_id, NONE)
    ELSE /\ likes' = Drop(likes, {like_id})
         /\ Respond("delete_like", 204, u, like_id, NoSet)
         /\ UNCHANGED <<userVars, nextLikeId, comments, nextCommentId,
                        versions, authVars, inflight, page_views, commentLikeVars, projVars>>

(* GET /likes/{url:path} *)
count_likes(url) ==
    /\ Answer("count_likes", 200, NONE, NONE, NoSet,
              [url |-> lstrip(url), requested |-> url,
               like_count |-> Cardinality({l \in DOMAIN likes :
                                              likes[l].url = lstrip(url)})])
    /\ UNCHANGED <<nonProjVars, projVars>>

(* GET /like-status/{url:path} *)
get_combined_like_status(url, user) ==
    /\ OptionalUser(user)
    /\ Answer("get_combined_like_status", 200, user, NONE, NoSet,
              [url |-> lstrip(url), requested |-> url,
               like_count |-> Cardinality({l \in DOMAIN likes :
                                              likes[l].url = lstrip(url)}),
               user_has_liked |-> /\ user # NONE
                                  /\ ExistingLikes(user, lstrip(url)) # {}])
    /\ UNCHANGED <<nonProjVars, projVars>>

(***************************************************************************)
(* Comment likes (likes_comments.py).  toggle_comment_like is a plain      *)
(* function too: it loads the comment and the caller's like, and later     *)
(* writes the like row and the counter it computed from the loaded comment *)
(* in one commit.                                                          *)
(***************************************************************************)
CommentLike(comment_id, user_id) ==
    [comment_id |-> comment_id, user_id |-> user_id, created_at |-> now]

CommentLikeRequest(u, comment_id, loaded_count, existing_like) ==
    [op |-> "toggle_comment_like", user |-> u, comment_id |-> comment_id,
     like_count |-> loaded_count, existing_like |-> existing_like]

(* select(CommentLike).where(comment_id == ..., user_id == ...).first() *)
ExistingCommentLikes(u, comment_id) ==
    {l \in DOMAIN comment_likes : /\ comment_likes[l].comment_id = comment_id
                                  /\ comment_likes[l].user_id = u}

LikesOf(comment_id) ==
    {l \in DOMAIN comment_likes : comment_likes[l].comment_id = comment_id}

(* POST /comments/{comment_id}/like, through its two SELECTs *)
toggle_comment_like(u, comment_id) ==
    IF AuthGate(u) # 0
    THEN RejectAccount("toggle_comment_like", AuthGate(u), u, comment_id, NONE)
    ELSE IF comment_id \notin DOMAIN comments
    THEN RejectAccount("toggle_comment_like", 404, u, comment_id, NONE)
    ELSE /\ Len(inflight) < MaxInflight
         /\ \E existing_like \in FirstOf(ExistingCommentLikes(u, comment_id)) :
               inflight' = Append(inflight,
                                  CommentLikeRequest(u, comment_id,
                                      comments[comment_id].like_count,
                                      existing_like))
         /\ UNCHANGED <<userVars, socialVars, authVars, page_views,
                        commentLikeVars, projVars, resp>>

(* POST /comments/{comment_id}/like, from `if existing_like` to the        *)
(* response: the counter written is the loaded one plus or minus one; the  *)
(* UPDATE of a comment that is gone meanwhile fails the request            *)
toggle_comment_like_commit(i) ==
    /\ i \in DOMAIN inflight
    /\ inflight[i].op = "toggle_comment_like"
    /\ Finish(i)
    /\ LET r == inflight[i]
           new_count == IF r.existing_like # NONE
                        THEN IF r.like_count - 1 > 0 THEN r.like_count - 1 ELSE 0
                        ELSE r.like_count + 1
       IN  IF r.comment_id \notin DOMAIN comments
           THEN /\ Answer("toggle_comment_like", 500, r.user, r.comment_id,
                          NoSet, NONE)
                /\ UNCHANGED <<comments, commentLikeVars>>
           ELSE /\ IF r.existing_like # NONE
                   THEN /\ comment_likes' = Drop(comment_likes, {r.existing_like})
                        /\ UNCHANGED nextCommentLikeId
                   ELSE /\ nextCommentLikeId <= MaxCommentLikes
                        /\ comment_likes' = Put(comment_likes, nextCommentLikeId,
                                                CommentLike(r.comment_id, r.user))
                        /\ nextCommentLikeId' = nextCommentLikeId + 1
                /\ comments' = [comments EXCEPT ![r.comment_id].like_count =
                                                   new_count]
                /\ Answer("toggle_comment_like", 200, r.user, r.comment_id, NoSet,
                          [liked |-> r.existing_like = NONE,
                           like_count |-> new_count])
    /\ UNCHANGED <<userVars, likes, nextLikeId, nextCommentId, versions, authVars,
                   page_views, projVars>>

(***************************************************************************)
(* POST /comment as the thread pool serves it: comment_url is a plain      *)
(* function, which loads the parent of a reply, and later inserts the      *)
(* reply and writes the parent's counter, computed from the loaded row, in *)
(* one commit.                                                             *)
(***************************************************************************)
CommentRequest(u, url, content, parent_comment_id, loaded_count) ==
    [op |-> "comment_url", user |-> u, url |-> url, content |-> content,
     parent_comment_id |-> parent_comment_id, reply_count |-> loaded_count]

(* POST /comment, through the SELECT of the parent *)
comment_url_select(u, url, content, parent_comment_id) ==
    LET sanitized_content == sanitize_content(content)
    IN  IF AuthGate(u) # 0
        THEN RejectAccount("comment_url", AuthGate(u), u, NONE, NONE)
        ELSE IF ~validate_comment_content(sanitized_content)
        THEN RejectAccount("comment_url", 400, u, NONE, NONE)
        ELSE IF parent_comment_id # NONE
                /\ parent_comment_id \notin DOMAIN comments
        THEN RejectAccount("comment_url", 404, u, NONE, NONE)
        ELSE IF parent_comment_id # NONE
                /\ (\/ comments[parent_comment_id].is_removed
                    \/ comments[parent_comment_id].is_hidden)
        THEN RejectAccount("comment_url", 400, u, NONE, NONE)
        ELSE /\ Len(inflight) < MaxInflight
             /\ inflight' = Append(inflight,
                    CommentRequest(u, lstrip(url), sanitized_content,
                        parent_comment_id,
                        IF parent_comment_id # NONE
                        THEN comments[parent_comment_id].reply_count
                        ELSE NONE))
             /\ UNCHANGED <<userVars, socialVars, authVars, page_views,
                            commentLikeVars, projVars, resp>>

(* POST /comment, from Comment(...) to the response.  session.get returns  *)
(* the parent loaded before; the commit fails when the UPDATE of the       *)
(* parent finds no row, or when the database checks foreign keys and the   *)
(* author or the parent is gone                                            *)
comment_url_commit(i, fk_enforced) ==
    /\ i \in DOMAIN inflight
    /\ inflight[i].op = "comment_url"
    /\ Finish(i)
    /\ LET r == inflight[i]
       IN  IF \/ r.parent_comment_id # NONE
                 /\ r.parent_comment_id \notin DOMAIN comments
              \/ r.user \notin DOMAIN users /\ fk_enforced
           THEN /\ Respond("comment_url", 500, r.user, NONE, NoSet)
                /\ UNCHANGED <<comments, nextCommentId>>
           ELSE /\ nextCommentId <= MaxThread
                /\ comments' =
                      Put(IF r.parent_comment_id # NONE
                          THEN [comments EXCEPT
                                   ![r.parent_comment_id].reply_count =
                                       r.reply_count + 1]
                          ELSE comments,
                          nextCommentId,
                          Comment(r.url, r.content, r.user, r.parent_comment_id))
                /\ nextCommentId' = nextCommentId + 1
                /\ Answer("comment_url", 200, r.user, nextCommentId, NoSet,
                          r.parent_comment_id)
    /\ UNCHANGED <<userVars, likes, nextLikeId, versions, authVars, page_views,
                   commentLikeVars, projVars>>

(***************************************************************************)
(* Specification of the project editor: every handler that writes a        *)
(* project or one of its child rows, with MaxEditRows child rows created.  *)
(***************************************************************************)
Pids == 1..MaxProjects
Rids == 1..MaxRows
ValInputs == Vals \cup {"none"}
FileSizes == {MAX_PROJECT_FILE_SIZE, MAX_PROJECT_FILE_SIZE + 1}
ImageSizes == {MAX_PROJECT_IMAGE_SIZE, MAX_PROJECT_IMAGE_SIZE + 1}

InitUsers ==
    /\ users = [i \in {1, 2} |-> User(IF i = 1 THEN "ann" ELSE "bob",
                                      IF i = 1 THEN "a@x" ELSE "b@x", "pw1", 0)]
    /\ nextUserId = 3
    /\ account_logs = <<>>

InitProjects ==
    /\ projects = <<>>
    /\ nextProjectId = 1
    /\ rows = <<>>
    /\ nextRowId = 1
    /\ components = {}

InitSocial ==
    /\ likes = <<>>
    /\ nextLikeId = 1
    /\ comments = <<>>
    /\ nextCommentId = 1
    /\ versions = <<>>

InitAuth ==
    /\ now = 1
    /\ issued = {}
    /\ inflight = <<>>
    /\ page_views = <<>>
    /\ comment_likes = <<>>
    /\ nextCommentLikeId = 1

InitEdit ==
    /\ InitUsers
    /\ InitProjects
    /\ InitSocial
    /\ InitAuth
    /\ resp = NoResponse

NextEdit ==
    \E u \in Requesters :
        \/ \E t \in Titles, tags \in SUBSET TagInputs \ {{}} : create_project(u, t, tags)
        \/ \E c \in ComponentIds : create_component(u, c)
        \/ \E pid \in Pids :
            \/ \E t \in Titles \cup {"none"} :
                  \/ update_project(u, pid, t, FALSE, {})
                  \/ \E tags \in SUBSET TagInputs : update_project(u, pid, t, TRUE, tags)
            \/ delete_project(u, pid)
            \/ publish_project(u, pid)
            \/ unpublish_project(u, pid)
            \/ \E n \in 1..MaxStep, v \in Vals :
                     nextRowId <= MaxEditRows /\ create_project_step(u, pid, n, v)
            \/ \E v \in Vals :
                     nextRowId <= MaxEditRows /\ create_bom_item(u, pid, v)
            \/ \E c \in ComponentIds :
                     nextRowId <= MaxEditRows /\ add_component_to_project(u, pid, c)
            \/ \E v \in Vals :
                     nextRowId <= MaxEditRows /\ create_project_link(u, pid, v)
            \/ \E v \in Vals :
                     nextRowId <= MaxEditRows /\ create_tool_material(u, pid, v)
            \/ \E e, st \in BOOLEAN, sz \in FileSizes :
                     nextRowId <= MaxEditRows /\ upload_project_file(u, pid, e, sz, st)
            \/ \E e, st \in BOOLEAN, sz \in ImageSizes :
                     nextRowId <= MaxEditRows /\ upload_project_image(u, pid, e, sz, st)
            \/ \E rid \in Rids :
                \/ \E v \in ValInputs : update_project_step(u, pid, rid, v)
                \/ delete_project_step(u, pid, rid)
                \/ \E v \in ValInputs : update_bom_item(u, pid, rid, v)
                \/ delete_bom_item(u, pid, rid)
                \/ remove_component_from_project(u, pid, rid)
                \/ \E v \in ValInputs : update_project_link(u, pid, rid, v)
                \/ delete_project_link(u, pid, rid)
                \/ \E v \in ValInputs : update_tool_material(u, pid, rid, v)
                \/ delete_tool_material(u, pid, rid)
                \/ delete_project_file(u, pid, rid)
                \/ set_primary_image(u, pid, rid)
                \/ delete_project_image(u, pid, rid)

SpecEdit == InitEdit /\ [][NextEdit]_vars

MutatingOps == {"update_project", "delete_project", "publish_project",
                "unpublish_project", "write_row"}

(***************************************************************************)
(* C3: a mutating project endpoint called by an authenticated user who is  *)
(* not the author of the addressed project answers 403, and the step       *)
(* leaves the project table and the child rows as they were.               *)
(***************************************************************************)
C3_NonAuthorRejected ==
    [][(/\ resp'.op \in MutatingOps
        /\ resp'.caller \in DOMAIN users
        /\ resp'.target \in DOMAIN projects
        /\ projects[resp'.target].author_id # resp'.caller)
       => (resp'.status = 403 /\ UNCHANGED <<projects, rows>>)]_vars

(* a non-author was turned away from a project that has a child row *)
C3_Witness ==
    /\ resp.op = "write_row"
    /\ resp.status = 403
    /\ resp.caller \in DOMAIN users
    /\ resp.target \in DOMAIN projects
    /\ projects[resp.target].author_id # resp.caller
    /\ RowsOf(resp.target, "step") # {}

(***************************************************************************)
(* Specification of the project table: every handler that writes a row of  *)
(* "project" (its fields, its counters, its primary image).                *)
(***************************************************************************)
NextStatus ==
    \E u \in Requesters :
        \/ \E t \in Titles, tags \in SUBSET TagInputs \ {{}} : create_project(u, t, tags)
        \/ \E pid \in Pids :
            \/ \E t \in Titles \cup {"none"} :
                  \/ update_project(u, pid, t, FALSE, {})
                  \/ \E tags \in SUBSET TagInputs : update_project(u, pid, t, TRUE, tags)
            \/ get_project(u, pid)
            \/ download_project(u, pid)
            \/ delete_project(u, pid)
            \/ publish_project(u, pid)
            \/ unpublish_project(u, pid)
            \/ \E e, st \in BOOLEAN, sz \in ImageSizes : upload_project_image(u, pid, e, sz, st)
            \/ \E rid \in Rids :
                \/ set_primary_image(u, pid, rid)
                \/ delete_project_image(u, pid, rid)

SpecStatus == InitEdit /\ [][NextStatus]_vars

(***************************************************************************)
(* C7: a project is created as a draft and its status is always "draft" or *)
(* "published"; a status changes only by a successful publish_project      *)
(* (draft to published) or a successful unpublish_project (published to    *)
(* draft); publish_project by the author on a published project and        *)
(* unpublish_project by the author on a draft answer 400 and change        *)
(* nothing; publish_project answers 200 only on a draft and                *)
(* unpublish_project only on a published project.                          *)
(***************************************************************************)
C7_StatusLifecycle ==
    /\ [](\A p \in DOMAIN projects : projects[p].status \in {"draft", "published"})
    /\ [][\A p \in DOMAIN projects' :
            /\ p \notin DOMAIN projects => projects'[p].status = "draft"
            /\ (p \in DOMAIN projects /\ projects'[p].status # projects[p].status)
               => /\ resp'.target = p
                  /\ resp'.status = 200
                  /\ \/ /\ resp'.op = "publish_project"
                        /\ projects[p].status = "draft"
                        /\ projects'[p].status = "published"
                     \/ /\ resp'.op = "unpublish_project"
                        /\ projects[p].status = "published"
                        /\ projects'[p].status = "draft"]_vars
    /\ [][(/\ resp'.op \in {"publish_project", "unpublish_project"}
            /\ resp'.target \in DOMAIN projects
            /\ resp'.caller = projects[resp'.target].author_id)
           => LET was == projects[resp'.target].status
                  from == IF resp'.op = "publish_project" THEN "draft" ELSE "published"
                  to == IF resp'.op = "publish_project" THEN "published" ELSE "draft"
              IN  IF was = from
                  THEN /\ resp'.status = 200
                       /\ projects' = [projects EXCEPT ![resp'.target].status = to]
                  ELSE resp'.status = 400 /\ UNCHANGED projects]_vars

(* the author asked to publish a project that was already published *)
C7_Witness ==
    /\ resp.op = "publish_project"
    /\ resp.status = 400
    /\ resp.target \in DOMAIN projects
    /\ projects[resp.target].status = "published"
    /\ projects[resp.target].view_count > 0

(***************************************************************************)
(* Specification of the gallery: projects are created, published and       *)
(* withdrawn, accounts are deleted, and everybody reads.                   *)
(***************************************************************************)
ReadOps == {"get_project", "read_rows", "download_project"}

NextGallery ==
    \E u \in Requesters :
        \/ \E t \in Titles, tags \in SUBSET TagInputs \ {{}} : create_project(u, t, tags)
        \/ \E fk \in BOOLEAN : auth_delete_account(u, fk)
        \/ \E pid \in Pids :
            \/ publish_project(u, pid)
            \/ unpublish_project(u, pid)
            \/ \E v \in Vals : create_bom_item(u, pid, v)
            \/ get_project(u, pid)
            \/ list_project_steps(u, pid)
            \/ list_bom_items(u, pid)
            \/ list_project_components(u, pid)
            \/ list_project_links(u, pid)
            \/ list_tools_materials(u, pid)
            \/ list_project_files(u, pid)
            \/ list_project_images(u, pid)
            \/ download_project(u, pid)

SpecGallery == InitEdit /\ [][NextGallery]_vars

(* who may read project p: everybody once it is published, its author before *)
MayRead(u, p) ==
    projects[p].status = "published"
    \/ (u \in DOMAIN users /\ u = projects[p].author_id)

TagFilters == {"none", "A", "b"}

NextListing ==
    \E u \in Requesters :
        \/ \E t \in Titles, tags \in SUBSET TagInputs \ {{}} : create_project(u, t, tags)
        \/ \E f \in StatusFilters, tag \in TagFilters,
              a \in (1..MaxUsers) \cup {NONE}, sort \in Sorts,
              page \in 1..MaxPage, per_page \in 1..MaxPage :
                list_projects(u, f, tag, a, sort, page, per_page)
        \/ \E pid \in Pids :
            \/ publish_project(u, pid)
            \/ unpublish_project(u, pid)
            \/ get_project(u, pid)
            \/ download_project(u, pid)

SpecListing == InitEdit /\ [][NextListing]_vars

(***************************************************************************)
(* C2, as stated: a project returned by list_projects is published, or is  *)
(* a draft of the requester.                                               *)
(***************************************************************************)
C2_NoForeignDrafts ==
    resp.op = "list_projects"
    => \A p \in resp.ids :
          (p \in DOMAIN projects /\ projects[p].status = "draft")
          => (resp.caller \in DOMAIN users /\ projects[p].author_id = resp.caller)

(***************************************************************************)
(* Specification of the accounts: registrations through the three routes,  *)
(* profile and address updates through the two routes, and deletions.      *)
(***************************************************************************)
InitAccounts ==
    /\ users = [i \in {1} |-> User("ann", "a@x", "pw1", 1)]
    /\ nextUserId = 2
    /\ account_logs = <<>>
    /\ InitProjects
    /\ InitSocial
    /\ InitAuth
    /\ resp = NoResponse

NextAccounts ==
    \/ \E n \in Usernames, e \in EmailInputs :
          \/ register_account(n, e, "pw1")
          \/ register_api(n, e, "pw1")
          \/ \E d \in BOOLEAN : register_user(n, e, d, "pw1")
    \/ \E u \in Requesters :
          \/ \E f \in {"none", "f1"}, e \in EmailInputs \cup {"none"} :
                  accounts_update_account(u, f, "none", e)
          \/ \E e \in EmailInputs, ok \in BOOLEAN : auth_update_account(u, e, ok)
          \/ \E fk \in BOOLEAN : accounts_delete_account(u, fk)
          \/ \E fk \in BOOLEAN : auth_delete_account(u, fk)

SpecAccounts == InitAccounts /\ [][NextAccounts]_vars

RegisterOps == {"register_account", "register_api", "register_user"}

UniqueUsers ==
    \A v, w \in DOMAIN users :
        v # w => (users[v].username # users[w].username
                  /\ users[v].email # users[w].email)

(* the username or the address of the request, as the route stores it, is   *)
(* the username or the address of a user row                                *)
Taken(op, arg) ==
    \/ UsernameTaken(arg[1])
    \/ EmailTaken(IF op = "register_user" THEN arg[2] ELSE EmailStr(arg[2]))

(***************************************************************************)
(* C4, as stated: no two users share a username or an email address, and   *)
(* a registration through any of the three routes whose username or email  *)
(* is taken is answered 400 and creates no user.                           *)
(***************************************************************************)
C4_AsStated ==
    /\ []UniqueUsers
    /\ [][(resp'.op \in RegisterOps /\ Taken(resp'.op, resp'.arg))
           => (resp'.status = 400 /\ UNCHANGED users)]_vars

(***************************************************************************)
(* C4: no two users share a username or an email address; a registration   *)
(* whose username or email is taken creates no user, and is answered 400   *)
(* by register_account and register_api, while register_user answers with  *)
(* the registration form again (status 200).                               *)
(***************************************************************************)
C4_UniqueUsers ==
    /\ []UniqueUsers
    /\ [][(resp'.op \in RegisterOps /\ Taken(resp'.op, resp'.arg))
           => /\ resp'.status = IF resp'.op = "register_user" THEN 200 ELSE 400
              /\ UNCHANGED users]_vars

(* a second user exists, and a registration with a taken address was refused *)
C4_Witness ==
    /\ Cardinality(DOMAIN users) = 2
    /\ resp.op = "register_account"
    /\ resp.status = 400
    /\ EmailTaken(EmailStr(resp.arg[2]))

(***************************************************************************)
(* Specification of authentication: users log in and delete their account, *)
(* time passes, and requests with every kind of credentials reach a        *)
(* protected route that reads and one that writes.                         *)
(***************************************************************************)
NextAuth ==
    \/ \E n \in Usernames, p \in Passwords : login_user(n, p)
    \/ Tick
    \/ \E c, h \in Credentials : protected_route(c, h)
    \/ \E c, h \in Credentials : POST_account_delete(c, h, TRUE)

SpecAuth == InitEdit /\ [][NextAuth]_vars

ProtectedOps == {"protected_route", "auth_delete_account"}

(* the Bearer token of a request: that of the Authorization header if it    *)
(* has one, otherwise that of the access_token cookie                       *)
BearerToken(header, cookie) ==
    IF header.scheme = "Bearer" THEN header.token
    ELSE IF cookie.scheme = "Bearer" THEN cookie.token
    ELSE EmptyToken

(* the server signed the token and it has not expired *)
Decodes(token) == token \in issued /\ token.exp >= now

(***************************************************************************)
(* C5: a request to a protected route is served, as user u, only if its    *)
(* Bearer token (of the Authorization header, otherwise of the cookie)     *)
(* decodes and its subject is the username of the existing user u; a       *)
(* request without such a token is answered 401 when the token is missing  *)
(* or does not decode and 404 when no user has the subject as username,    *)
(* and changes nothing.                                                    *)
(***************************************************************************)
C5_Authentication ==
    [][(resp'.op \in ProtectedOps /\ now' = now)
       => IF resp'.status \in {401, 404}
          THEN LET token == BearerToken(resp'.arg[1], resp'.arg[2])
               IN  /\ UNCHANGED <<userVars, socialVars, authVars, page_views, commentLikeVars, projVars>>
                   /\ resp'.status = 401 <=> ~Decodes(token)
                   /\ resp'.status = 404 <=> (Decodes(token)
                                              /\ ~UsernameTaken(token.sub))
          ELSE /\ resp'.caller \in DOMAIN users
               /\ \E token \in issued :
                     /\ Decodes(token)
                     /\ token.sub = users[resp'.caller].username
               /\ resp'.op = "protected_route"
                   => LET token == BearerToken(resp'.arg[1], resp'.arg[2])
                      IN  /\ Decodes(token)
                          /\ token.sub = users[resp'.caller].username]_vars

(* a token that was issued to a user who has since deleted the account was  *)
(* presented in the cookie, under a header of another scheme                *)
C5_Witness ==
    /\ resp.op = "auth_delete_account"
    /\ resp.status = 404
    /\ resp.arg[1].scheme = "Basic"
    /\ resp.arg[2].token \in issued
    /\ resp.arg[2].token.exp >= now

(***************************************************************************)
(* Specification of moderation: an administrator (ann) and a regular user  *)
(* (bob) comment, report and moderate, and read through GET /comments/...  *)
(***************************************************************************)
CommentIds == 1..MaxComments
UserIds == 1..MaxUsers

InitAdmin ==
    /\ users = [i \in {1, 2} |-> User(IF i = 1 THEN "ann" ELSE "bob",
                                      IF i = 1 THEN "a@x" ELSE "b@x", "pw1",
                                      IF i = 1 THEN 1 ELSE 0)]
    /\ nextUserId = 3
    /\ account_logs = <<>>
    /\ InitProjects
    /\ InitSocial
    /\ InitAuth
    /\ resp = NoResponse

NextModeration ==
    \/ \E u \in Requesters, url \in {"flagged", "/p"}, c \in {"hi", "<b></b>"} :
          comment_url(u, url, c, NONE)
    \/ \E u \in Requesters, c \in CommentIds : report_comment(u, c, "spam")
    \/ \E u \in Requesters, c \in CommentIds : hide_comment(u, c)
    \/ \E u \in Requesters, c \in CommentIds : unhide_comment(u, c)
    \/ \E u \in Requesters, c \in CommentIds : clear_comment_flags(u, c)
    \/ \E u \in Requesters, path \in Paths : GET_comments(path, u)

SpecModeration == InitAdmin /\ [][NextModeration]_vars

(***************************************************************************)
(* Specification of the administration of accounts.                        *)
(***************************************************************************)
NextAdmin ==
    \/ \E u \in Requesters, t \in UserIds, st \in {"active", "inactive", "on"} :
          admin_update_account_status(u, t, st)
    \/ \E u \in Requesters, t \in UserIds : admin_reset_password(u, t, "Password2")
    \/ \E u \in Requesters, t \in UserIds, fk \in BOOLEAN :
          admin_delete_account(u, t, fk)
    \/ \E u \in Requesters, t \in UserIds : force_password_reset(u, t)
    \/ \E u \in Requesters, t \in UserIds, code \in ResetCodes :
          generate_reset_code(u, t, code)

SpecAdmin == InitAdmin /\ [][NextAdmin]_vars

AdminOps == {"admin_update_account_status", "admin_reset_password",
             "admin_delete_account", "force_password_reset",
             "generate_reset_code", "get_flagged_comments", "hide_comment",
             "unhide_comment", "clear_comment_flags"}

(* the request just answered was a request for an admin-only operation:    *)
(* it reached one of the admin-only handlers, or it was GET                *)
(* /comments/flagged                                                       *)
AdminRequest(r) ==
    \/ r.op \in AdminOps
    \/ /\ r.op \in {"get_comments_with_usernames", "get_comment_versions"}
       /\ r.arg = <<"flagged">>

(***************************************************************************)
(* C6: every request for an admin-only operation (account status update,   *)
(* admin password reset, admin account deletion, forcing a password reset, *)
(* generating a reset code, listing flagged comments, hiding, unhiding,    *)
(* clearing flags) made by an authenticated user whose type is not 1 is    *)
(* answered 403 and changes no user and no comment.                        *)
(***************************************************************************)
C6_AdminOnly ==
    [][(/\ AdminRequest(resp')
        /\ resp'.caller \in DOMAIN users
        /\ users[resp'.caller].type # 1)
       => /\ resp'.status = 403
          /\ UNCHANGED <<users, account_logs, comments, versions>>]_vars

(* C6, of the handlers alone: an admin-only handler that runs for an       *)
(* authenticated user whose type is not 1 answers 403 and changes no user  *)
(* and no comment.                                                         *)
C6_HandlersRefuse ==
    [][(/\ resp'.op \in AdminOps
        /\ resp'.caller \in DOMAIN users
        /\ users[resp'.caller].type # 1)
       => /\ resp'.status = 403
          /\ UNCHANGED <<users, account_logs, comments, versions>>]_vars

(* bob, a regular user, asked to hide a comment that exists *)
C6_HandlersWitness ==
    /\ resp.op = "hide_comment"
    /\ resp.status = 403
    /\ resp.target \in DOMAIN comments
    /\ users[resp.caller].type = 0

(***************************************************************************)
(* Specification of the likes: ann and bob like and unlike two pages       *)
(* through both routes, up to MaxInflight requests at a time.              *)
(***************************************************************************)
LikeIds == 1..MaxLikes

NextLikes ==
    \/ \E u \in Requesters, url \in {"p", "/p"} : create_like(u, url)
    \/ \E i \in 1..MaxInflight : create_like_commit(i)
    \/ \E u \in Requesters, url \in {"p", "/p"} : toggle_like(u, url)
    \/ \E i \in 1..MaxInflight : toggle_like_commit(i)
    \/ \E u \in Requesters, l \in LikeIds : delete_like(u, l)

SpecLikes == InitEdit /\ [][NextLikes]_vars

(***************************************************************************)
(* C8: for every user and URL there is at most one Like row, whatever the  *)
(* interleaving of create_like and toggle_like requests.                   *)
(***************************************************************************)
C8_OneLikePerUserUrl ==
    \A l1, l2 \in DOMAIN likes :
        (likes[l1].user_id = likes[l2].user_id /\ likes[l1].url = likes[l2].url)
            => l1 = l2

(***************************************************************************)
(* Specification of the comment threads: ann (administrator) and bob       *)
(* comment and reply, remove their comments, an administrator hides and    *)
(* unhides comments, and everybody reads the comments of a page and of a   *)
(* user.                                                                   *)
(***************************************************************************)
Limits == {1, 50}
Offsets == {0, 1}

NextComments ==
    \/ \E u \in Requesters, url \in {"/p", "flagged"},
          parent \in CommentIds \cup {NONE} : comment_url(u, url, "hi", parent)
    \/ \E u \in Requesters, c \in CommentIds : remove_comment(u, c)
    \/ \E u \in Requesters, c \in CommentIds : hide_comment(u, c)
    \/ \E u \in Requesters, c \in CommentIds : unhide_comment(u, c)
    \/ \E u \in Requesters, path \in Paths : GET_comments(path, u)
    \/ \E n \in Usernames \cup {"zed"}, limit \in Limits, offset \in Offsets :
          get_user_comments(n, limit, offset)

SpecComments == InitAdmin /\ [][NextComments]_vars

(* the last moderation of comment c was unhide_comment (hide_comment and   *)
(* unhide_comment are the moderation requests of SpecComments)             *)
Unhidden(c) == comments[c].reviewed_by # NONE /\ ~comments[c].is_hidden

(* the page named in the path of the last GET /comments/... request *)
RequestedUrl == lstrip(PathParam(resp.arg))

(* the last request was a comment list, and it answered with a list *)
PageList == resp.op = "get_comments_with_usernames" /\ resp.status = 200
UserList == resp.op = "get_user_comments" /\ resp.status = 200

(* the page of the user list asked for holds all comments there can be *)
WholeList == resp.arg.offset = 0 /\ resp.arg.limit >= MaxComments

NoneHiddenOrRemoved ==
    (PageList \/ UserList)
        => \A c \in resp.ids : /\ c \in DOMAIN comments
                               /\ ~comments[c].is_hidden
                               /\ ~comments[c].is_removed

UserListComplete ==
    (UserList /\ WholeList)
        => \A c \in DOMAIN comments :
              (/\ comments[c].user_id = resp.target
               /\ Unhidden(c)
               /\ ~comments[c].is_removed) => c \in resp.ids

(* c is a top-level comment, or a reply to a comment of the same page that *)
(* is neither hidden nor removed and is itself so placed                   *)
RECURSIVE UnderShownComments(_)
UnderShownComments(c) ==
    \/ comments[c].parent_comment_id = NONE
    \/ /\ comments[c].parent_comment_id \in DOMAIN comments
       /\ LET parent == comments[c].parent_comment_id
          IN  /\ comments[parent].url = comments[c].url
              /\ ~comments[parent].is_hidden
              /\ ~comments[parent].is_removed
              /\ UnderShownComments(parent)

(***************************************************************************)
(* C9 as stated: a comment that is hidden or removed is in no list of      *)
(* get_comments_with_usernames or get_user_comments, and a comment that    *)
(* was unhidden and is not removed is in the list of its page and in the   *)
(* (whole) list of its author.                                             *)
(***************************************************************************)
C9_AsStated ==
    /\ NoneHiddenOrRemoved
    /\ UserListComplete
    /\ PageList
         => \A c \in DOMAIN comments :
               (/\ comments[c].url = RequestedUrl
                /\ Unhidden(c)
                /\ ~comments[c].is_removed) => c \in resp.ids

(***************************************************************************)
(* C9, amended: a comment that is hidden or removed is in no list of       *)
(* get_comments_with_usernames or get_user_comments; a comment that was    *)
(* unhidden and is not removed is in the (whole) list of its author, and   *)
(* in the list of its page if it is a top-level comment or a reply under   *)
(* comments of the same page none of which is hidden or removed.           *)
(***************************************************************************)
C9_HiddenNeverShown ==
    /\ NoneHiddenOrRemoved
    /\ UserListComplete
    /\ PageList
         => \A c \in DOMAIN comments :
               (/\ comments[c].url = RequestedUrl
                /\ Unhidden(c)
                /\ ~comments[c].is_removed
                /\ UnderShownComments(c)) => c \in resp.ids

(* the page list holds a reply that was unhidden *)
C9_Witness ==
    /\ PageList
    /\ \E c \in resp.ids : /\ Unhidden(c)
                           /\ comments[c].parent_comment_id # NONE

(***************************************************************************)
(* Specification of the edit history: ann and bob comment and edit, one    *)
(* request at a time, while time passes, and read the versions.            *)
(***************************************************************************)
NextVersions ==
    \/ \E u \in Requesters : comment_url(u, "p", "hi", NONE)
    \/ \E u \in Requesters, c \in CommentIds, content \in Contents :
          edit_comment(u, c, content)
    \/ \E u \in Requesters, d \in Digits : GET_comments(<<d, "versions">>, u)
    \/ Tick

SpecVersions == InitAdmin /\ [][NextVersions]_vars

(* the rows of the version table that belong to comment c, oldest first *)
VersionsOf(c) == SelectSeq(versions, LAMBDA v : v.comment_id = c)

(* the contents of c's versions, followed by c's content *)
History(c) ==
    Append([i \in DOMAIN VersionsOf(c) |-> VersionsOf(c)[i].content],
           comments[c].content)

(***************************************************************************)
(* C10: a new comment has no version; each successful edit_comment adds    *)
(* exactly one version, which holds the content the comment had before the *)
(* edit, so that the contents of the versions followed by the content of   *)
(* the comment are all the contents the comment has had, in order; an edit *)
(* that fails (401, 404, 403, 400) changes no version and no comment;      *)
(* get_comment_versions returns the versions of the comment, and no other, *)
(* newest first.                                                           *)
(***************************************************************************)
C10_EditHistory ==
    [][now' = now =>
       /\ \A t \in CommentIds :
          /\ (resp'.op = "comment_url" /\ resp'.status = 200 /\ resp'.target = t)
             => (VersionsOf(t))' = <<>>
          /\ (resp'.op = "edit_comment" /\ resp'.status = 200 /\ resp'.target = t)
             => /\ Len(versions') = Len(versions) + 1
                /\ Len((VersionsOf(t))') = Len(VersionsOf(t)) + 1
                /\ (History(t))' =
                      Append(History(t), sanitize_content(resp'.arg))
                /\ \A c \in DOMAIN comments \ {t} :
                      /\ comments'[c] = comments[c]
                      /\ (VersionsOf(c))' = VersionsOf(c)
       /\ (resp'.op = "edit_comment" /\ resp'.status # 200)
          => UNCHANGED <<versions, comments>>
       /\ (resp'.op = "get_comment_versions" /\ resp'.status = 200)
          => /\ {resp'.ids[i] : i \in DOMAIN resp'.ids}
                   = {i \in DOMAIN versions :
                         versions[i].comment_id = resp'.target}
             /\ \A i, j \in DOMAIN resp'.ids :
                   i < j => versions[resp'.ids[i]].edited_at
                               >= versions[resp'.ids[j]].edited_at]_vars

(* the second edit of a comment succeeded, with a content that differs     *)
(* from both contents before it                                            *)
C10_Witness ==
    /\ resp.op = "edit_comment"
    /\ resp.status = 200
    /\ Len(VersionsOf(resp.target)) = 2
    /\ History(resp.target)[1] # History(resp.target)[2]
    /\ History(resp.target)[2] # History(resp.target)[3]

(***************************************************************************)
(* Specification of ownership: ann and bob comment and like, and each      *)
(* tries to edit and remove the comments and to delete the likes of both,  *)
(* one request at a time.                                                  *)
(***************************************************************************)
NextOwnership ==
    \/ \E u \in Requesters : comment_url(u, "p", "hi", NONE)
    \/ \E u \in Requesters : inflight = <<>> /\ toggle_like(u, "p")
    \/ toggle_like_commit(1)
    \/ \E u \in Requesters, c \in CommentIds : edit_comment(u, c, "yo")
    \/ \E u \in Requesters, c \in CommentIds : remove_comment(u, c)
    \/ \E u \in Requesters, l \in LikeIds : delete_like(u, l)

SpecOwnership == InitEdit /\ [][NextOwnership]_vars

(***************************************************************************)
(* C11: edit_comment and remove_comment on a comment of another user, and  *)
(* delete_like on a like of another user, answer 403 and change no         *)
(* comment, no version and no like.                                        *)
(***************************************************************************)
C11_OwnRowsOnly ==
    [][/\ (/\ resp'.op \in {"edit_comment", "remove_comment"}
           /\ resp'.caller \in DOMAIN users
           /\ resp'.target \in DOMAIN comments
           /\ comments[resp'.target].user_id # resp'.caller)
          => /\ resp'.status = 403
             /\ UNCHANGED <<comments, versions, likes>>
       /\ (/\ resp'.op = "delete_like"
           /\ resp'.caller \in DOMAIN users
           /\ resp'.target \in DOMAIN likes
           /\ likes[resp'.target].user_id # resp'.caller)
          => /\ resp'.status = 403
             /\ UNCHANGED <<comments, versions, likes>>]_vars

(* bob asked to remove a comment of ann that is not removed, while a like  *)
(* of ann exists                                                           *)
C11_Witness ==
    /\ resp.op = "remove_comment"
    /\ resp.status = 403
    /\ resp.target \in DOMAIN comments
    /\ ~comments[resp.target].is_removed
    /\ comments[resp.target].user_id # resp.caller
    /\ \E l \in DOMAIN likes : likes[l].user_id # resp.caller

(***************************************************************************)
(* Specification of removal: bob posts, edits and removes comments and may *)
(* delete his account (which takes his comments with it), anyone asks to   *)
(* remove them, and the administrator ann hides and unhides them, while    *)
(* time passes.                                                            *)
(***************************************************************************)
NextRemoval ==
    \/ comment_url(2, "p", "hi", NONE)
    \/ \E c \in CommentIds : edit_comment(2, c, "yo")
    \/ \E u \in Requesters, c \in CommentIds : remove_comment(u, c)
    \/ \E c \in CommentIds : hide_comment(1, c)
    \/ \E c \in CommentIds : unhide_comment(1, c)
    \/ \E fk \in BOOLEAN : auth_delete_account(2, fk)
    \/ Tick

SpecRemoval == InitAdmin /\ [][NextRemoval]_vars

(***************************************************************************)
(* C12: remove_comment deletes no comment row: a successful call sets      *)
(* is_removed and removed_at of its comment and changes nothing else; a    *)
(* call by the author on a comment already removed answers 400 and changes *)
(* nothing; and no request sets is_removed of a comment back to false.     *)
(***************************************************************************)
C12_SoftDelete ==
    [][/\ \A c \in DOMAIN comments \cap DOMAIN comments' :
             comments[c].is_removed => comments'[c].is_removed
       /\ (resp'.op = "remove_comment" /\ now' = now)
          => /\ DOMAIN comments' = DOMAIN comments
             /\ UNCHANGED <<versions, likes, users>>
             /\ IF resp'.status = 200
                THEN /\ ~comments[resp'.target].is_removed
                     /\ comments' = [comments EXCEPT
                                        ![resp'.target].is_removed = TRUE,
                                        ![resp'.target].removed_at = now]
                ELSE UNCHANGED comments
             /\ (/\ resp'.target \in DOMAIN comments
                 /\ resp'.caller = comments[resp'.target].user_id
                 /\ comments[resp'.target].is_removed)
                => resp'.status = 400]_vars

(* the author asked again to remove a comment that was removed at an       *)
(* earlier time, after an administrator had hidden and unhidden it         *)
C12_Witness ==
    /\ resp.op = "remove_comment"
    /\ resp.status = 400
    /\ comments[resp.target].removed_at < now
    /\ comments[resp.target].reviewed_by # NONE
    /\ ~comments[resp.target].is_hidden

(***************************************************************************)
(* Specification of the reset codes: codes are generated for bob, anyone   *)
(* submits the reset form, and minutes or a day pass.                      *)
(***************************************************************************)
NextReset ==
    \/ \E u \in UserIds, code \in ResetCodes : generate_reset_code(u, 2, code)
    \/ \E name \in {"bob", "zed"}, code \in CodeInputs, pw \in NewPasswords :
          handle_reset_password(name, code, pw, "password2")
    \/ \E d \in {1, CodeLife} : Wait(d)

SpecReset == InitAdmin /\ [][NextReset]_vars

(***************************************************************************)
(* C13: handle_reset_password changes a password only when the submitted   *)
(* code equals, letter case aside, the code the user holds and that code   *)
(* has not expired; the reset that succeeds takes the code away, so that   *)
(* no code is accepted until another is generated; and a generated code    *)
(* replaces the one the user held.  Every other submission changes nothing.*)
(***************************************************************************)
C13_OneTimeCode ==
    [][now' = now =>
       /\ resp'.op = "handle_reset_password"
          => IF resp'.status = 303
             THEN LET t == resp'.target
                  IN  /\ t \in DOMAIN users
                      /\ users[t].password_reset_code # NoCode
                      /\ upper(users[t].password_reset_code)
                            = upper(resp'.arg.reset_code)
                      /\ users[t].code_expires_at >= now
                      /\ users' = [users EXCEPT
                            ![t].hashed_password =
                                hash_password(resp'.arg.new_password),
                            ![t].password_reset_code = NoCode,
                            ![t].code_expires_at = NONE]
             ELSE UNCHANGED users
       /\ (resp'.op = "generate_reset_code" /\ users' # users)
          => users' = [users EXCEPT
                ![resp'.target].password_reset_code = resp'.arg,
                ![resp'.target].code_expires_at = now + CodeLife]]_vars

(* a code is refused for an account whose password an earlier submission   *)
(* of the form has reset, and which has been given a newer code since      *)
C13_Witness ==
    /\ resp.op = "handle_reset_password"
    /\ resp.status = 200
    /\ resp.target # NONE
    /\ resp.arg.new_password = "password2"
    /\ resp.arg.reset_code = "code1"
    /\ users[resp.target].hashed_password = hash_password("password2")
    /\ users[resp.target].password_reset_code = "CODE2"
    /\ users[resp.target].code_expires_at >= now

(***************************************************************************)
(* Specification of logins: ann is an administrator; users log in through *)
(* the form and through the API, the administrators force password resets, *)
(* the users answer them, and time passes.                                 *)
(***************************************************************************)
LoginPasswords == {"pw1", "password2"}

NextLogin ==
    \/ \E u \in UserIds, t \in UserIds : force_password_reset(u, t)
    \/ \E n \in Usernames, p \in LoginPasswords : login_api(n, p)
    \/ \E n \in Usernames, p \in LoginPasswords : login_user(n, p)
    \/ \E u \in Requesters, pw \in NewPasswords :
          handle_force_password_reset(u, pw, "password2")
    \/ Tick

SpecLogin == InitAdmin /\ [][NextLogin]_vars

LoggedIn(r) ==
    \/ r.op = "login_api" /\ r.status = 200
    \/ r.op = "login_user" /\ r.status = 303

(***************************************************************************)
(* C14, as stated: a successful login, through the form or through the     *)
(* API, of a user whose force_password_reset is set is answered with the   *)
(* forced password-reset step, not with a normal logged-in response.       *)
(***************************************************************************)
C14_ForcedReset ==
    [][(now' = now /\ LoggedIn(resp') /\ users[resp'.target].force_password_reset)
       => resp'.arg = "/force-password-reset"]_vars

(***************************************************************************)
(* Specification of last_login: accounts are registered, users log in      *)
(* through the form and through the API with right and wrong passwords,    *)
(* and time passes.                                                        *)
(***************************************************************************)
NextLastLogin ==
    \/ \E n \in Usernames, e \in EmailInputs : register_account(n, e, "pw1")
    \/ \E n \in Usernames, p \in Passwords : login_api(n, p)
    \/ \E n \in Usernames, p \in Passwords : login_user(n, p)
    \/ Tick

SpecLastLogin == InitAccounts /\ [][NextLastLogin]_vars

(***************************************************************************)
(* C15, as stated: a successful login, through the API or through the      *)
(* form, sets the user's last_login to the time of the login; any other    *)
(* request leaves every last_login as it is, and a registered account      *)
(* starts without one.                                                     *)
(***************************************************************************)
C15_LastLogin ==
    [][now' = now =>
       /\ \A v \in DOMAIN users' :
             users'[v].last_login =
                IF LoggedIn(resp') /\ resp'.target = v THEN now
                ELSE IF v \in DOMAIN users THEN users[v].last_login
                ELSE NONE
       /\ \A v \in DOMAIN users \cap DOMAIN users' :
             users[v].last_login <= users'[v].last_login]_vars

(***************************************************************************)
(* Specification of PATCH /accounts/me: ann and bob, and requests without  *)
(* a user, submit first names, last names and addresses, absent ("none"),  *)
(* equal to the stored ones, new, or in use.                               *)
(***************************************************************************)
NextUpdate ==
    \E u \in Requesters, f \in {"none", "f0", "f1"}, l \in {"none", "l1"},
       e \in {"none", "a@x", "b@X", "c@x"} :
        accounts_update_account(u, f, l, e)

SpecUpdate == InitEdit /\ [][NextUpdate]_vars

(* the value of a field of user u, and the value the request carries for   *)
(* it, as pydantic hands it to the handler                                 *)
Submitted(arg, field) ==
    IF field = "firstname" THEN arg.firstname
    ELSE IF field = "lastname" THEN arg.lastname
    ELSE IF arg.email = "none" THEN "none" ELSE EmailStr(arg.email)

Stored(u, field) ==
    IF field = "firstname" THEN users[u].firstname
    ELSE IF field = "lastname" THEN users[u].lastname
    ELSE users[u].email

LoggedFields == {"firstname", "lastname", "email"}

NextPasswords ==
    \/ \E u \in Requesters, old \in {"pw1", "Password2"}, new \in StrongInputs :
          accounts_reset_password(u, old, new)
    \/ \E u \in Requesters, t \in UserIds, new \in StrongInputs :
          admin_reset_password(u, t, new)
    \/ \E u \in UserIds : accounts_update_account(u, "f1", "none", "none")

SpecPasswords == InitAdmin /\ [][NextPasswords]_vars

PasswordOps == {"accounts_reset_password", "admin_reset_password"}

(***************************************************************************)
(* C17: every row of the account log whose field_changed is "password"     *)
(* has "[REDACTED]" as old_value and as new_value, and no row holds a      *)
(* password submitted; a password change that succeeds appends exactly     *)
(* that row, for the user whose password changed, with changed_by the user *)
(* who made the request.                                                   *)
(***************************************************************************)
C17_Redacted ==
    [][/\ \A i \in DOMAIN account_logs' :
             /\ account_logs'[i].action = "updated"
             /\ account_logs'[i].old_value \notin StrongInputs \cup Passwords
             /\ account_logs'[i].new_value \notin StrongInputs \cup Passwords
             /\ account_logs'[i].field_changed = "password"
                => /\ account_logs'[i].old_value = "[REDACTED]"
                   /\ account_logs'[i].new_value = "[REDACTED]"
       /\ (resp'.op \in PasswordOps /\ resp'.status = 200)
          => /\ users'[resp'.target].hashed_password = hash_password(resp'.arg)
             /\ account_logs' = Append(account_logs,
                   AccountLog(resp'.target, "updated", "password",
                              "[REDACTED]", "[REDACTED]", resp'.caller))
       /\ (resp'.op \in PasswordOps /\ resp'.status # 200)
          => UNCHANGED <<users, account_logs>>]_vars

(* the administrator ann has reset bob's password after bob changed it     *)
(* himself                                                                 *)
C17_Witness ==
    /\ resp.op = "admin_reset_password"
    /\ resp.status = 200
    /\ resp.arg = "Password3"
    /\ Len(account_logs) = 2
    /\ account_logs[1].changed_by = 2
    /\ account_logs[2].changed_by = 1
    /\ account_logs[2].user_id = 2
    /\ account_logs[2].field_changed = "password"

(***************************************************************************)
(* Specification of the project files: a user creates a project, and files *)
(* of one megabyte, of exactly the limit and of one byte more are uploaded *)
(* to it and deleted from it, by the author and by others.                 *)
(***************************************************************************)
UploadSizes == {1024 * 1024, MAX_PROJECT_FILE_SIZE, MAX_PROJECT_FILE_SIZE + 1}

NextFiles ==
    \/ \E u \in UserIds : create_project(u, "T1", {"a"})
    \/ \E u \in Requesters, pid \in Pids, e, st \in BOOLEAN, sz \in UploadSizes :
          upload_project_file(u, pid, e, sz, st)
    \/ \E u \in Requesters, pid \in Pids, rid \in Rids :
          delete_project_file(u, pid, rid)
    \/ \E u \in Requesters, pid \in Pids : list_project_files(u, pid)

SpecFiles == InitEdit /\ [][NextFiles]_vars

(* sum(file_size) over the ProjectFile rows S *)
RECURSIVE TotalSize(_)
TotalSize(S) ==
    IF S = {} THEN 0
    ELSE LET rid == CHOOSE r \in S : TRUE
         IN  rows[rid].n + TotalSize(S \ {rid})

(***************************************************************************)
(* C18, as stated: for every project the file sizes of its ProjectFile     *)
(* rows add up to 25MB at most.                                            *)
(***************************************************************************)
C18_ProjectLimit ==
    \A pid \in DOMAIN projects :
        TotalSize(RowsOf(pid, "file")) <= MAX_PROJECT_FILE_SIZE

(***************************************************************************)
(* Steps, served as the framework serves them.  create_project_step is a   *)
(* plain function run in a thread: its SELECT of the existing step and its *)
(* commit are two steps, and other requests may run in between.  A PUT     *)
(* under /projects/{project_id}/steps/ goes to the first route that        *)
(* matches its last segment.                                               *)
(***************************************************************************)
StepRequest(u, pid, step_number, val, existing_step) ==
    [op |-> "create_project_step", user |-> u, pid |-> pid,
     step_number |-> step_number, val |-> val, existing_step |-> existing_step]

(* POST /projects/{project_id}/steps, through its SELECT *)
create_project_step_select(u, pid, step_number, val) ==
    IF AuthorGate(u, pid) # 0
    THEN /\ Answer("create_project_step", AuthorGate(u, pid), u, pid, NoSet,
                   step_number)
         /\ UNCHANGED <<nonProjVars, projVars>>
    ELSE /\ Len(inflight) < MaxInflight
         /\ inflight' = Append(inflight,
               StepRequest(u, pid, step_number, val,
                           \E r \in RowsOf(pid, "step") : rows[r].n = step_number))
         /\ UNCHANGED <<userVars, socialVars, authVars, page_views, commentLikeVars, projVars, resp>>

(* POST /projects/{project_id}/steps, from the test of existing_step to    *)
(* the response                                                            *)
create_project_step_commit(i) ==
    /\ i \in DOMAIN inflight
    /\ inflight[i].op = "create_project_step"
    /\ Finish(i)
    /\ IF inflight[i].existing_step
       THEN /\ Answer("create_project_step", 400, inflight[i].user,
                      inflight[i].pid, NoSet, inflight[i].step_number)
            /\ UNCHANGED <<rows, nextRowId>>
       ELSE /\ nextRowId <= MaxRows
            /\ rows' = Put(rows, nextRowId,
                           Row("step", inflight[i].pid, inflight[i].val,
                               inflight[i].step_number))
            /\ nextRowId' = nextRowId + 1
            /\ Answer("create_project_step", 201, inflight[i].user,
                      inflight[i].pid, NoSet, inflight[i].step_number)
    /\ UNCHANGED <<userVars, socialVars, authVars, page_views, commentLikeVars, projects, nextProjectId,
                   components>>

(* for new_number, step_id in enumerate(step_order, start=1): the number a  *)
(* step is left with is that of its last place in the list                 *)
LastPlace(step_order, rid) ==
    CHOOSE i \in DOMAIN step_order :
        /\ step_order[i] = rid
        /\ \A j \in DOMAIN step_order : step_order[j] = rid => j <= i

(* PUT /projects/{project_id}/steps/reorder, the handler *)
reorder_project_steps(u, pid, step_order) ==
    IF AuthorGate(u, pid) # 0
    THEN /\ Answer("reorder_project_steps", AuthorGate(u, pid), u, pid, NoSet,
                   step_order)
         /\ UNCHANGED <<nonProjVars, projVars>>
    ELSE IF \/ Len(step_order) # Cardinality(RowsOf(pid, "step"))
            \/ \E i \in DOMAIN step_order : step_order[i] \notin RowsOf(pid, "step")
    THEN /\ Answer("reorder_project_steps", 400, u, pid, NoSet, step_order)
         /\ UNCHANGED <<nonProjVars, projVars>>
    ELSE /\ rows' = [r \in DOMAIN rows |->
                        IF \E i \in DOMAIN step_order : step_order[i] = r
                        THEN [rows[r] EXCEPT !.n = LastPlace(step_order, r)]
                        ELSE rows[r]]
         /\ Answer("reorder_project_steps", 200, u, pid, NoSet, step_order)
         /\ UNCHANGED <<nonProjVars, projects, nextProjectId, nextRowId,
                        components>>

PUT_steps_routes ==
    << [path |-> <<"{step_id}">>, endpoint |-> "update_project_step"],
       [path |-> <<"reorder">>, endpoint |-> "reorder_project_steps"] >>

(* PUT /projects/{pid}/steps/<segment> by u; step_id: int refuses a segment *)
(* that is no number with 422, once the user is known                      *)
PUT_project_steps(u, pid, segment, val, step_order) ==
    LET endpoint == RouteOf(PUT_steps_routes, <<segment>>).endpoint
    IN  IF endpoint = "reorder_project_steps"
        THEN reorder_project_steps(u, pid, step_order)
        ELSE IF AuthGate(u) # 0
        THEN Reject("write_row", AuthGate(u), u, pid)
        ELSE IF segment \notin Digits
        THEN /\ Answer("update_project_step", 422, u, pid, NoSet, segment)
             /\ UNCHANGED <<nonProjVars, projVars>>
        ELSE update_project_step(u, pid, int(segment), val)

(***************************************************************************)
(* Specification of the steps: a user creates a project; steps are added,  *)
(* by requests that may overlap, and deleted; and PUT requests arrive for  *)
(* a step and for "reorder".                                               *)
(***************************************************************************)
StepOrders == {<<1>>, <<1, 2>>, <<2, 1>>, <<1, 1>>}

NextSteps ==
    \/ \E u \in UserIds : create_project(u, "T1", {"a"})
    \/ \E u \in UserIds, pid \in Pids, n \in 1..MaxStep :
          create_project_step_select(u, pid, n, "x")
    \/ \E i \in 1..MaxInflight : create_project_step_commit(i)
    \/ \E u \in UserIds, pid \in Pids, rid \in Rids : delete_project_step(u, pid, rid)
    \/ \E u \in Requesters, pid \in Pids, segment \in Digits \cup {"reorder"},
          step_order \in StepOrders :
          PUT_project_steps(u, pid, segment, "y", step_order)

SpecSteps == InitEdit /\ [][NextSteps]_vars

(***************************************************************************)
(* C19, as stated: no two steps of a project have the same step_number;    *)
(* create_project_step answers 400, and adds nothing, when the number is   *)
(* in use in the project; and after a reorder_project_steps answered 200   *)
(* each step of the list has the number of its place in the list.          *)
(***************************************************************************)
C19_UniqueStepNumbers ==
    /\ [](\A pid \in DOMAIN projects : \A r1, r2 \in RowsOf(pid, "step") :
             rows[r1].n = rows[r2].n => r1 = r2)
    /\ [][/\ (/\ resp' # resp
              /\ resp'.op = "create_project_step"
              /\ resp'.target \in DOMAIN projects
              /\ resp'.caller = projects[resp'.target].author_id
              /\ \E r \in RowsOf(resp'.target, "step") : rows[r].n = resp'.arg)
             => (resp'.status = 400 /\ UNCHANGED rows)
          /\ (resp'.op = "reorder_project_steps" /\ resp'.status = 200)
             => \A i \in DOMAIN resp'.arg : rows'[resp'.arg[i]].n = i]_vars

(***************************************************************************)
(* Page views (page_views.py).  An instant is a number of ticks of half an *)
(* hour since 2025-01-01 00:00; the calendar below is that of 2025 and     *)
(* 2026, which have no 29th of February.                                   *)
(***************************************************************************)
TicksPerDay == 48
DaysPerYear == 365
FirstYear == 2025

(* the days of the year before the first of each month *)
DaysBefore == <<0, 31, 59, 90, 120, 151, 181, 212, 243, 273, 304, 334, 365>>

datetime(year, month, day, tick) ==
    ((year - FirstYear) * DaysPerYear + DaysBefore[month] + day - 1) * TicksPerDay
        + tick

(* timedelta(days=n) *)
days(n) == n * TicksPerDay

(* DATE(viewed_at) and strftime("%Y-%m-%d"): year, month, day of month *)
DATE(t) ==
    LET day == t \div TicksPerDay
        dayOfYear == day % DaysPerYear
        month == CHOOSE m \in 1..12 :
                    DaysBefore[m] <= dayOfYear /\ dayOfYear < DaysBefore[m + 1]
    IN  <<FirstYear + day \div DaysPerYear, month,
          dayOfYear - DaysBefore[month] + 1>>

(* DATE_TRUNC('month', viewed_at) as 'YYYY-MM' and strftime("%Y-%m") *)
DATE_TRUNC_month(t) == <<DATE(t)[1], DATE(t)[2]>>

(* date.replace(day=1) *)
replace_day_1(t) == t - days(DATE(t)[3] - 1)

PageView(url, viewed_at) == [url |-> url, viewed_at |-> viewed_at]

(* POST /page-view *)
log_page_view(url) ==
    /\ Len(page_views) < MaxViews
    /\ page_views' = Append(page_views, PageView(lstrip(url), now))
    /\ Answer("log_page_view", 200, NONE, NONE, NoSet, lstrip(url))
    /\ UNCHANGED <<userVars, socialVars, authVars, inflight, commentLikeVars,
                   projVars>>

Periods == {"weekly", "monthly", "annual"}

(* start_date = now - timedelta(days=...) *)
start_date(period) ==
    now - (IF period = "weekly" THEN days(6)
           ELSE IF period = "monthly" THEN days(29)
           ELSE days(364))

(* the date of data point i (from 1), as the loops of the handler make it *)
PointDate(period, i) ==
    IF period = "annual"
    THEN DATE_TRUNC_month(
            replace_day_1(replace_day_1(start_date(period)) + days(32 * (i - 1))))
    ELSE DATE(start_date(period) + days(i - 1))

(* the rows of the SELECT: WHERE url = :url AND viewed_at >= :start_date *)
Selected(url, period) ==
    {v \in DOMAIN page_views : /\ page_views[v].url = url
                               /\ page_views[v].viewed_at >= start_date(period)}

(* GROUP BY, then view_counts.get(date_str, 0) *)
view_counts(url, period, date) ==
    Cardinality({v \in Selected(url, period) :
                    date = IF period = "annual"
                           THEN DATE_TRUNC_month(page_views[v].viewed_at)
                           ELSE DATE(page_views[v].viewed_at)})

(* total_views += count, over the first n data points *)
RECURSIVE SumCounts(_, _)
SumCounts(data, n) ==
    IF n = 0 THEN 0 ELSE data[n].count + SumCounts(data, n - 1)

(* GET /page-views/{url:path}/timeline?period=..., the handler *)
get_page_view_timeline(url, period) ==
    IF period \notin Periods
    THEN /\ Answer("get_page_view_timeline", 422, NONE, NONE, NoSet, NONE)
         /\ UNCHANGED <<nonProjVars, projVars>>
    ELSE LET n == IF period = "weekly" THEN 7
                  ELSE IF period = "monthly" THEN 30 ELSE 12
             data == [i \in 1..n |->
                        [date |-> PointDate(period, i),
                         count |-> view_counts(lstrip(url), period,
                                               PointDate(period, i))]]
         IN  /\ Answer("get_page_view_timeline", 200, NONE, NONE, NoSet,
                       [url |-> lstrip(url), period |-> period, data |-> data,
                        total_views |-> SumCounts(data, n)])
             /\ UNCHANGED <<nonProjVars, projVars>>

(***************************************************************************)
(* Specification of the timeline: the table holds up to MaxViews views of  *)
(* two pages, logged now, earlier today or yesterday, and around 6, 29 and *)
(* 364 days ago; views are logged and timelines asked for, in the middle   *)
(* of a month, on its last day and at the first instant of a month.        *)
(***************************************************************************)
Instants == {datetime(2026, 1, 15, 24), datetime(2026, 1, 31, 24),
             datetime(2026, 3, 1, 0)}
Ago == {0, 24, days(6), days(6) + 24, days(29), days(364), days(365)}

InitTimeline ==
    /\ InitUsers
    /\ InitProjects
    /\ InitSocial
    /\ issued = {}
    /\ inflight = <<>>
    /\ comment_likes = <<>>
    /\ nextCommentLikeId = 1
    /\ resp = NoResponse
    /\ now \in Instants
    /\ \E n \in 0..MaxViews :
          /\ page_views \in [1..n -> {PageView(url, now - a) :
                                         url \in {"p", "q"}, a \in Ago}]
          /\ \A i \in 1..(n - 1) :
                page_views[i].viewed_at <= page_views[i + 1].viewed_at

NextTimeline ==
    \/ \E url \in {"p", "/q"} : log_page_view(url)
    \/ \E url \in {"p", "/p", "q"}, period \in Periods \cup {"daily"} :
          get_page_view_timeline(url, period)

SpecTimeline == InitTimeline /\ [][NextTimeline]_vars

(* the views of the response's page inside the queried range *)
InRange(r) ==
    {v \in DOMAIN page_views :
        /\ page_views[v].url = r.arg.url
        /\ page_views[v].viewed_at >= start_date(r.arg.period)
        /\ page_views[v].viewed_at <= now}

(* the period of a data point holds the instant t *)
Holds(r, i, t) ==
    r.arg.data[i].date =
        IF r.arg.period = "annual" THEN DATE_TRUNC_month(t) ELSE DATE(t)

(***************************************************************************)
(* C20, as stated: a timeline has 7 or 30 data points for consecutive days *)
(* ending today, or 12 for consecutive months ending with the current      *)
(* month; every view of the page inside the queried range is held by       *)
(* exactly one data point, each data point counts the views it holds, and  *)
(* total_views counts them all.                                            *)
(***************************************************************************)
C20_Timeline ==
    [][(resp'.op = "get_page_view_timeline" /\ resp'.status = 200)
       => LET r == resp'
              data == r.arg.data
          IN  /\ Len(data) = (IF r.arg.period = "weekly" THEN 7
                              ELSE IF r.arg.period = "monthly" THEN 30 ELSE 12)
              /\ Holds(r, Len(data), now)
              /\ \A v \in InRange(r) :
                    Cardinality({i \in DOMAIN data :
                                    Holds(r, i, page_views[v].viewed_at)}) = 1
              /\ \A i \in DOMAIN data :
                    data[i].count =
                       Cardinality({v \in InRange(r) :
                                       Holds(r, i, page_views[v].viewed_at)})
              /\ r.arg.total_views = Cardinality(InRange(r))]_vars

(***************************************************************************)
(* Specification of the comment likes: bob posts a comment, ann and bob    *)
(* like and unlike comments, up to MaxInflight requests at a time.         *)
(***************************************************************************)
NextCommentLikes ==
    \/ comment_url(2, "p", "hi", NONE)
    \/ \E u \in Requesters, c \in CommentIds : toggle_comment_like(u, c)
    \/ \E i \in 1..MaxInflight : toggle_comment_like_commit(i)

SpecCommentLikes == InitAdmin /\ [][NextCommentLikes]_vars

(***************************************************************************)
(* C21: the like_count of every comment is the number of CommentLike rows  *)
(* of that comment and is never negative, whatever the interleaving of     *)
(* toggle_comment_like requests; and the like_count and liked of a         *)
(* response are the comment's counter and whether the caller has a like    *)
(* row right after the call.                                               *)
(***************************************************************************)
C21_LikeCount ==
    /\ [](\A c \in DOMAIN comments :
             /\ comments[c].like_count = Cardinality(LikesOf(c))
             /\ comments[c].like_count >= 0)
    /\ [][(resp'.op = "toggle_comment_like" /\ resp'.status = 200)
            => /\ resp'.arg.like_count = comments'[resp'.target].like_count
               /\ resp'.arg.liked =
                     (\E l \in DOMAIN comment_likes' :
                         /\ comment_likes'[l].comment_id = resp'.target
                         /\ comment_likes'[l].user_id = resp'.caller)]_vars

(***************************************************************************)
(* C22: a toggle_like call served with no other request in between removes *)
(* the caller's like of the normalized URL if there is one and adds one    *)
(* otherwise, leaving every other (user, URL) pair alone, so that a second *)
(* call restores the pairs; liked in the response is whether the caller    *)
(* has a like of the URL after the call and like_count is the number of    *)
(* Like rows of the URL after the call.                                    *)
(***************************************************************************)
LikePairs == {<<likes[l].user_id, likes[l].url>> : l \in DOMAIN likes}

ServedAlone(i) ==
    inflight[i].existing_like
        \in FirstOf(ExistingLikes(inflight[i].user, inflight[i].url))

C22_Toggle ==
    [][\A i \in DOMAIN inflight :
          (toggle_like_commit(i) /\ ServedAlone(i))
             => LET pair == <<inflight[i].user, inflight[i].url>>
                IN  /\ LikePairs' = IF pair \in LikePairs
                                    THEN LikePairs \ {pair}
                                    ELSE LikePairs \cup {pair}
                    /\ resp'.arg.liked = (pair \in LikePairs')
                    /\ resp'.arg.like_count =
                          Cardinality({l \in DOMAIN likes' :
                                          likes'[l].url = inflight[i].url})]_vars

(***************************************************************************)
(* Specification of the stored URLs: bob and anonymous visitors like,      *)
(* comment and view a page named with and without a leading slash, through *)
(* every endpoint that stores a URL, and read the likes of the page.       *)
(***************************************************************************)
PageNames == {"p", "/p"}

NextUrls ==
    \/ \E u \in {NONE, 2}, url \in PageNames : create_like(u, url)
    \/ \E i \in 1..MaxInflight : create_like_commit(i)
    \/ \E u \in {NONE, 2}, url \in PageNames : toggle_like(u, url)
    \/ \E i \in 1..MaxInflight : toggle_like_commit(i)
    \/ \E url \in PageNames : comment_url(2, url, "hi", NONE)
    \/ \E url \in PageNames : log_page_view(url)
    \/ \E url \in PageNames : count_likes(url)
    \/ \E u \in {NONE, 2}, url \in PageNames : get_combined_like_status(url, u)

SpecUrls == InitEdit /\ [][NextUrls]_vars

(* the page a URL names, with or without its leading slash *)
PageOfUrl(url) == IF url \in {"p", "/p"} THEN "p" ELSE url

HasLeadingSlash(url) == url = "/p"

(***************************************************************************)
(* C23: every stored Like, Comment and PageView row has a url with no      *)
(* leading '/', whichever endpoint created it, and the like_count (and     *)
(* user_has_liked) that count_likes and get_combined_like_status answer    *)
(* for a page count the likes recorded for that page, whether the request  *)
(* names the page with or without a leading slash.                         *)
(***************************************************************************)
C23_Normalized ==
    /\ [](/\ \A l \in DOMAIN likes : ~HasLeadingSlash(likes[l].url)
          /\ \A c \in DOMAIN comments : ~HasLeadingSlash(comments[c].url)
          /\ \A v \in DOMAIN page_views : ~HasLeadingSlash(page_views[v].url))
    /\ [][resp'.op \in {"count_likes", "get_combined_like_status"}
            => LET recorded == {l \in DOMAIN likes :
                                   PageOfUrl(likes[l].url) =
                                       PageOfUrl(resp'.arg.requested)}
               IN  /\ resp'.arg.like_count = Cardinality(recorded)
                   /\ resp'.op = "get_combined_like_status"
                        => resp'.arg.user_has_liked =
                              (\E l \in recorded :
                                  likes[l].user_id = resp'.caller)]_vars

(***************************************************************************)
(* C24: when update_account answers 400 (the address is in use), the       *)
(* stored firstname, lastname and email of the user are those of before    *)
(* the request, and the request has added no row to the account log.       *)
(***************************************************************************)
C24_AllOrNothing ==
    [][(resp'.op = "accounts_update_account" /\ resp'.status = 400)
          => /\ users'[resp'.caller].firstname = users[resp'.caller].firstname
             /\ users'[resp'.caller].lastname = users[resp'.caller].lastname
             /\ users'[resp'.caller].email = users[resp'.caller].email
             /\ account_logs' = account_logs]_vars

(***************************************************************************)
(* Specification of the tokens of deleted accounts: accounts are           *)
(* registered, log in through the API, delete themselves or are deleted by *)
(* the administrator (ann), time passes, and requests present the tokens   *)
(* issued so far to a protected route.                                     *)
(***************************************************************************)
NextTokens ==
    \/ \E n \in {"ann", "bob"}, e \in {"a@x", "b@x"} : register_account(n, e, "pw1")
    \/ \E n \in {"ann", "bob"} : login_api(n, "pw1")
    \/ \E u \in UserIds, fk \in BOOLEAN : accounts_delete_account(u, fk)
    \/ \E fk \in BOOLEAN : admin_delete_account(1, 2, fk)
    \/ \E h \in Credentials : protected_route(Absent, h)
    \/ Tick

SpecTokens == InitAccounts /\ [][NextTokens]_vars

(***************************************************************************)
(* C25: a token never authenticates a request as an account other than the *)
(* one it was issued to: a protected route served with a token is served   *)
(* as an account that existed when the token was issued (create_access_    *)
(* token sets exp to the instant of issue plus TokenLife), so a token of a *)
(* deleted account is rejected also after its username is registered anew. *)
(***************************************************************************)
C25_TokenIdentity ==
    [][(resp'.op = "protected_route" /\ resp'.status = 200 /\ now' = now)
          => LET token == BearerToken(resp'.arg[1], resp'.arg[2])
             IN  users[resp'.caller].created_at <= token.exp - TokenLife]_vars

(***************************************************************************)
(* Specification of the replies: ann (administrator) posts comments, bob   *)
(* replies to the first one, up to MaxInflight requests at a time; ann     *)
(* removes and hides the first comment and bob deletes his account.        *)
(***************************************************************************)
NextReplies ==
    \/ comment_url_select(1, "p", "hi", NONE)
    \/ comment_url_select(2, "/p", "hi", 1)
    \/ \E i \in 1..MaxInflight, fk \in BOOLEAN : comment_url_commit(i, fk)
    \/ remove_comment(1, 1)
    \/ hide_comment(1, 1)
    \/ \E fk \in BOOLEAN : auth_delete_account(2, fk)

SpecReplies == InitAdmin /\ [][NextReplies]_vars

RepliesOf(c) == {d \in DOMAIN comments : comments[d].parent_comment_id = c}

(***************************************************************************)
(* C26: the reply_count of every comment is the number of Comment rows     *)
(* whose parent_comment_id is that comment, whatever the interleaving of   *)
(* replies, removals and account deletions; and a reply is created only    *)
(* under a parent that exists and is neither removed nor hidden when the   *)
(* reply is created.                                                       *)
(***************************************************************************)
C26_ReplyCount ==
    /\ [](\A c \in DOMAIN comments :
             comments[c].reply_count = Cardinality(RepliesOf(c)))
    /\ [][(resp'.op = "comment_url" /\ resp'.status = 200
             /\ nextCommentId' # nextCommentId /\ resp'.arg # NONE)
            => /\ resp'.arg \in DOMAIN comments
               /\ ~comments[resp'.arg].is_removed
               /\ ~comments[resp'.arg].is_hidden]_vars

====
